---- MODULE Spec2Model ----
(***************************************************************************)
(* Model of the bullet pipeline of weavara-daily: the Phase 1.5 threshold  *)
(* classifier and soft filter (known_info_filter.py), the Phase 2          *)
(* validator and merge, the Phase 3 merge and the deduplication projection *)
(* (executive_summary_phase2.py).                                          *)
(*                                                                         *)
(* JSON values are modelled as follows.  A dict is a record with a fixed   *)
(* set of fields; a key that is missing from the dict holds Absent, a key  *)
(* that holds Python's None holds None.  An optional list of integers that *)
(* is missing is AbsentInts, an optional list of ids that is missing is    *)
(* AbsentIds.  A deduplication value is a record tagged by "kind".         *)
(***************************************************************************)
EXTENDS Integers, Sequences, FiniteSets, TLC

VARIABLES
  pc,                  \* the step the run is at
  item, section,       \* arguments of _classify_bullet_with_threshold
  classification,      \* its result
  phase1_json,         \* the Phase 1 JSON ("sections" mapping)
  ai_response,         \* "bullets" of the provider's Phase 1.5 response
  filter_result,       \* "bullets" of filter_known_information's result
  enrichments,         \* argument of validate_phase2_json
  validation,          \* its result
  phase2_result,       \* "enrichments" of the Phase 2 result
  phase2_json,         \* the Phase 1+2 merged JSON
  phase3_json,         \* "sections" of the Phase 3 response
  phase3_merged_json,  \* the Phase 2+3 merged JSON
  merged,              \* the JSON the last operation returned
  surviving,           \* result of _filter_surviving_bullets
  bullet_dates,        \* result of _collect_all_bullet_dates
  phase,               \* the top-level phase function that runs
  anthropic_api_key,   \* whether the key is given
  gemini_api_key,      \* whether the key is given
  primary_model,       \* 'claude' or 'gemini' (Phases 3 and 4)
  provider,            \* the provider function that is running
  attempt,             \* the phase function's attempt with the primary (1, 2)
  content_attempt,     \* Phase 1.5: index of the content retry loop (0, 1)
  http_attempt,        \* index of the provider's request loop (0..2)
  last_response,       \* what the last request came back with
  provider_calls,      \* the provider functions invoked so far, in order
  http_requests,       \* the number of requests sent so far
  slept,               \* the time.sleep calls so far, in order
  phase_result,        \* what the phase function returned, or that it raised
  categories,          \* Phase 1: the article lists by category
  unified_timeline,    \* Phase 1: the lines of the article timeline
  article_count,       \* Phase 1: the FLAGGED ARTICLE COUNT written
  filings,             \* Phase 1.5: the result of _fetch_available_filings
  company_releases,    \* Phase 1.5: the 8-K exhibit rows of the ticker
  eight_k_filings,     \* Phase 1.5: the result of _fetch_filtered_8k_filings
  filing_lookup,       \* Phase 1.5: the filings put in the knowledge base
  parsed,              \* Phase 4: what extract_json_from_claude_response returned
  phase4_json,         \* Phase 4: the result of _parse_phase4_json_response
  now_eastern,         \* Phase 4 dates: the day it is in US/Eastern
  report_type,         \* Phase 4 dates: 'daily' or 'weekly'
  dated_bullets,       \* Phase 4 dates: the bullets of the Phase 3 JSON
  phase4_result,       \* Phase 4 dates: the paragraphs before and after
  consolidated,        \* Phase 4 dates: the result of _consolidate_dates
  heap,                \* merge layer: the dicts in memory, by address
  heap_before,         \* merge layer: the dicts as the last call found them
  argument_roots,      \* merge layer: the addresses of the last call's arguments
  result_root,         \* merge layer: the address of what the last call returned
  deduplicated_twice   \* apply_deduplication of what apply_deduplication returned

classifyVars == <<item, section, classification>>
filterVars == <<ai_response, filter_result>>
validateVars == <<enrichments, validation>>
mergeVars == <<phase2_result, phase2_json, phase3_json, phase3_merged_json>>

survivorVars == <<surviving, bullet_dates>>
runVars == <<phase, anthropic_api_key, gemini_api_key, primary_model, provider, attempt,
             content_attempt, http_attempt, last_response, provider_calls, http_requests,
             slept, phase_result>>
timelineVars == <<categories, unified_timeline, article_count>>
knowledgeVars == <<filings, company_releases, eight_k_filings, filing_lookup>>
parseVars == <<parsed, phase4_json>>
dateVars == <<now_eastern, report_type, dated_bullets, phase4_result, consolidated>>
frameVars == <<heap, heap_before, argument_roots, result_root>>
laterVars == <<dateVars, frameVars, deduplicated_twice>>
contentVars == <<timelineVars, knowledgeVars, parseVars, laterVars>>
orchestrationVars == <<survivorVars, runVars, contentVars>>

vars == <<pc, classifyVars, phase1_json, filterVars, validateVars, mergeVars, merged,
          orchestrationVars>>

----------------------------------------------------------------------------
(* Bounds of the model *)

MaxSentences == 3

----------------------------------------------------------------------------
(* JSON encoding *)

Absent == "<absent>"
None == "None"
AbsentInts == <<-1>>
AbsentIds == <<Absent>>
Unset == "<unset>"

(* dict.get(key, default) for the two kinds of optional list *)
GetInts(l) == IF l = AbsentInts THEN <<>> ELSE l
GetIds(l) == IF l = AbsentIds THEN <<>> ELSE l

(* Python truthiness of a string-or-None field: None, a missing key's      *)
(* default and the empty string are falsy.                                 *)
Truthy(v) == v # Absent /\ v # None /\ v # ""

(* str.upper() and str.lower() on the strings the model draws *)
Upper(s) ==
  CASE s = "remove" -> "REMOVE"
    [] s = "keep" -> "KEEP"
    [] OTHER -> s

Lower(s) ==
  CASE s = "Wall_Street_Sentiment" -> "wall_street_sentiment"
    [] s = "KEY_VARIABLES" -> "key_variables"
    [] s = "Major_Developments" -> "major_developments"
    [] s = "Duplicate" -> "duplicate"
    [] OTHER -> s

----------------------------------------------------------------------------
(* Sections *)

bullet_section_names ==
  << "major_developments", "financial_performance", "risk_factors",
     "wall_street_sentiment", "competitive_industry_dynamics",
     "upcoming_catalysts", "key_variables" >>

Range(s) == { s[i] : i \in DOMAIN s }

SectionSet == Range(bullet_section_names)

EXEMPT_SECTIONS ==
  { "wall_street_sentiment", "upcoming_catalysts", "key_variables",
    "bottom_line", "upside_scenario", "downside_scenario" }

NonExemptSections == SectionSet \ EXEMPT_SECTIONS

----------------------------------------------------------------------------
(* Phase 1.5 step 2: threshold classification *)

(* sum(1 for s in sentences if s.get('sentence_action','KEEP').upper() == 'REMOVE') *)
SentenceAction(s) == Upper(IF s = Absent THEN "KEEP" ELSE s)

StaleCount(sentences) ==
  Cardinality({ i \in DOMAIN sentences : SentenceAction(sentences[i]) = "REMOVE" })

(* stale_count / total >= 2/3, both sides being the correctly rounded      *)
(* quotient of small integers: the comparison of the exact rationals.      *)
AtLeastTwoThirdsStrict(stale_count, total) == 3 * stale_count > 2 * total

AtLeastTwoThirds(stale_count, total) == 3 * stale_count >= 2 * total

IsExempt(it, sec) ==
  LET section_lower == IF sec # "" /\ sec # None /\ sec # Absent THEN Lower(sec) ELSE ""
  IN section_lower \in EXEMPT_SECTIONS \/ it.exempt

ClassifyBulletWithThreshold(it, sec) ==
  IF IsExempt(it, sec) THEN "exempt"
  ELSE IF Len(it.sentences) = 0 THEN "all_new"
  ELSE LET stale_count == StaleCount(it.sentences)
           total == Len(it.sentences)
       IN IF stale_count = 0 THEN "all_new"
          ELSE IF stale_count = total THEN "all_known"
          ELSE IF AtLeastTwoThirds(stale_count, total) THEN "mostly_known"
          ELSE "mostly_new"

----------------------------------------------------------------------------
(* Bullets and the Phase 1 JSON *)

DedupAbsent == [ kind |-> "absent" ]
DedupNull == [ kind |-> "null" ]
DedupDict(status, absorbs, absorbed_by) ==
  [ kind |-> "dict", status |-> status, absorbs |-> absorbs, absorbed_by |-> absorbed_by ]
DedupUnique == DedupDict("unique", AbsentIds, Absent)

TopicLabel(id) ==
  CASE id = "b1" -> "topic 1" [] id = "b2" -> "topic 2" [] OTHER -> "topic 3"

Content(id) ==
  CASE id = "b1" -> "content 1" [] id = "b2" -> "content 2" [] OTHER -> "content 3"

(* A bullet as Phase 1 validates it: bullet_id, topic_label and content    *)
(* present, the fields of the later phases not yet there.                  *)
Phase1Bullet(id, source_articles) ==
  [ bullet_id |-> id, topic_label |-> TopicLabel(id), content |-> Content(id),
    source_articles |-> source_articles,
    filter_status |-> Absent, filter_reason |-> Absent,
    impact |-> Absent, sentiment |-> Absent, reason |-> Absent,
    relevance |-> Absent, context |-> Absent, entity |-> Absent,
    deduplication |-> DedupAbsent ]

(* The "sections" mapping that lists the bullets of `order` whose section  *)
(* under sec_of is s, in the order of `order`.                             *)
SectionsOf(order, sec_of) ==
  [ s \in SectionSet |-> SelectSeq(order, LAMBDA b : sec_of[b.bullet_id] = s) ]

BulletIdsOf(json, s) == { json[s][i].bullet_id : i \in DOMAIN json[s] }

AllBulletIds(json) == UNION { BulletIdsOf(json, s) : s \in SectionSet }

SectionOfId(json, id) == CHOOSE s \in SectionSet : id \in BulletIdsOf(json, s)

BulletOfId(json, id) ==
  LET s == SectionOfId(json, id)
      i == CHOOSE j \in DOMAIN json[s] : json[s][j].bullet_id = id
  IN json[s][i]

IdSeq(bullets) == [ i \in DOMAIN bullets |-> bullets[i].bullet_id ]

----------------------------------------------------------------------------
(* Phase 1.5: filter_known_information (step 2) and apply_filter_to_phase1 *)

(* One bullet of the provider's response after step 2: the action is set   *)
(* from the classification alone, exempt is set for an exempt one.         *)
ApplyClassificationKeepingAction(bullet, cls) ==
  IF cls \in {"all_known", "mostly_known"} THEN [bullet EXCEPT !.action = "REMOVE"]
  ELSE IF cls = "exempt" THEN [bullet EXCEPT !.action = "KEEP", !.exempt = TRUE]
  ELSE bullet

ApplyClassification(bullet, cls) ==
  IF cls \in {"all_known", "mostly_known"} THEN [bullet EXCEPT !.action = "REMOVE"]
  ELSE IF cls = "exempt" THEN [bullet EXCEPT !.action = "KEEP", !.exempt = TRUE]
  ELSE [bullet EXCEPT !.action = "KEEP"]

(* bullet.get('section', '') *)
ResponseSection(bullet) == IF bullet.section = Absent THEN "" ELSE bullet.section

FilterKnownInformationStep2(bullets) ==
  [ idx \in DOMAIN bullets |->
      ApplyClassification(bullets[idx],
        ClassifyBulletWithThreshold(bullets[idx], ResponseSection(bullets[idx]))) ]

(* bullet_actions: the entry of the last bullet of filter_result with the  *)
(* id; an entry with a missing or empty bullet_id is skipped.              *)
HasAction(bullets, id) ==
  \E i \in DOMAIN bullets : Truthy(bullets[i].bullet_id) /\ bullets[i].bullet_id = id

BulletAction(bullets, id) ==
  LET last == CHOOSE i \in DOMAIN bullets :
                /\ bullets[i].bullet_id = id
                /\ \A j \in DOMAIN bullets : bullets[j].bullet_id = id => j <= i
  IN Upper(IF bullets[last].action = Absent THEN "KEEP" ELSE bullets[last].action)

MarkBullet(bullet, bullets) ==
  IF ~HasAction(bullets, bullet.bullet_id)
  THEN [bullet EXCEPT !.filter_status = "included", !.filter_reason = None]
  ELSE IF BulletAction(bullets, bullet.bullet_id) = "REMOVE"
  THEN [bullet EXCEPT !.filter_status = "filtered_out", !.filter_reason = "stale"]
  ELSE [bullet EXCEPT !.filter_status = "included", !.filter_reason = None]

ApplyFilterDroppingStale(json, bullets) ==
  [ s \in SectionSet |->
      SelectSeq([ i \in DOMAIN json[s] |-> MarkBullet(json[s][i], bullets) ],
                LAMBDA b : b.filter_status # "filtered_out") ]

ApplyFilterToPhase1(json, bullets) ==
  [ s \in SectionSet |-> [ i \in DOMAIN json[s] |-> MarkBullet(json[s][i], bullets) ] ]

----------------------------------------------------------------------------
(* Phase 2: merge_phase1_phase2 and sort_bullets_by_impact *)

(* dict.get(key): None for a missing key *)
GetOrNone(v) == IF v = Absent THEN None ELSE v

(* enr, the enrichments, is a function from the bullet ids it has an entry for *)
EnrichBulletWithContext(bullet, section_name, enr) ==
  IF ~Truthy(bullet.bullet_id) \/ bullet.bullet_id \notin DOMAIN enr THEN bullet
  ELSE LET enrichment == enr[bullet.bullet_id]
       IN [bullet EXCEPT !.impact = GetOrNone(enrichment.impact),
                         !.sentiment = GetOrNone(enrichment.sentiment),
                         !.reason = GetOrNone(enrichment.reason),
                         !.relevance = GetOrNone(enrichment.relevance),
                         !.context = GetOrNone(enrichment.context),
                         !.entity = GetOrNone(enrichment.entity)]

EnrichBullet(bullet, section_name, enr) ==
  IF ~Truthy(bullet.bullet_id) \/ bullet.bullet_id \notin DOMAIN enr THEN bullet
  ELSE LET enrichment == enr[bullet.bullet_id]
       IN IF section_name = "wall_street_sentiment"
          THEN [bullet EXCEPT !.impact = GetOrNone(enrichment.impact),
                              !.sentiment = GetOrNone(enrichment.sentiment),
                              !.reason = GetOrNone(enrichment.reason),
                              !.relevance = GetOrNone(enrichment.relevance),
                              !.context = ""]
          ELSE [bullet EXCEPT !.impact = GetOrNone(enrichment.impact),
                              !.sentiment = GetOrNone(enrichment.sentiment),
                              !.reason = GetOrNone(enrichment.reason),
                              !.relevance = GetOrNone(enrichment.relevance),
                              !.context = GetOrNone(enrichment.context),
                              !.entity = GetOrNone(enrichment.entity)]

(* A key that puts bullets without a known impact first *)
get_sort_key_missing_first(bullet) ==
  CASE bullet.impact = "high impact" -> 0
    [] bullet.impact = "medium impact" -> 1
    [] bullet.impact = "low impact" -> 2
    [] OTHER -> -1

get_sort_key(bullet) ==
  CASE bullet.impact = "high impact" -> 0
    [] bullet.impact = "medium impact" -> 1
    [] bullet.impact = "low impact" -> 2
    [] OTHER -> 999

(* sorted(bullets, key=get_sort_key): a stable sort, here by insertion of  *)
(* each bullet after the bullets already placed whose key is not larger.   *)
InsertByKey(sorted, bullet) ==
  LET before == { i \in DOMAIN sorted : get_sort_key(sorted[i]) <= get_sort_key(bullet) }
      n == Cardinality(before)
  IN SubSeq(sorted, 1, n) \o <<bullet>> \o SubSeq(sorted, n + 1, Len(sorted))

RECURSIVE sort_bullets_by_impact(_)
sort_bullets_by_impact(bullets) ==
  IF Len(bullets) = 0 THEN << >>
  ELSE InsertByKey(sort_bullets_by_impact(SubSeq(bullets, 1, Len(bullets) - 1)),
                   bullets[Len(bullets)])

enriched_sections ==
  { "major_developments", "financial_performance", "risk_factors",
    "wall_street_sentiment", "competitive_industry_dynamics" }

MergePhase1Phase2(json, enr) ==
  LET enriched ==
        IF DOMAIN enr = {} THEN json
        ELSE [ s \in SectionSet |->
                 [ i \in DOMAIN json[s] |-> EnrichBullet(json[s][i], s, enr) ] ]
  IN [ s \in SectionSet |->
         IF s \in enriched_sections /\ Len(enriched[s]) > 0
         THEN sort_bullets_by_impact(enriched[s])
         ELSE enriched[s] ]

----------------------------------------------------------------------------
(* Phase 3: merge_phase3_with_phase2 *)

dedup_sections ==
  << "major_developments", "financial_performance", "risk_factors",
     "wall_street_sentiment", "competitive_industry_dynamics", "upcoming_catalysts" >>

DedupSectionSet == Range(dedup_sections)

(* phase3_map: the last Phase 3 bullet of the section with the id *)
InPhase3Map(phase3_bullets, id) ==
  \E i \in DOMAIN phase3_bullets : phase3_bullets[i].bullet_id = id

Phase3MapGet(phase3_bullets, id) ==
  LET last == CHOOSE i \in DOMAIN phase3_bullets :
                /\ phase3_bullets[i].bullet_id = id
                /\ \A j \in DOMAIN phase3_bullets :
                     phase3_bullets[j].bullet_id = id => j <= i
  IN phase3_bullets[last]

(* A merge that takes the content of the Phase 3 bullet along *)
MergeDedupAndContent(bullet, phase3_bullets) ==
  IF Truthy(bullet.bullet_id) /\ InPhase3Map(phase3_bullets, bullet.bullet_id)
  THEN LET phase3_bullet == Phase3MapGet(phase3_bullets, bullet.bullet_id)
       IN [bullet EXCEPT !.content = phase3_bullet.content,
                         !.deduplication = IF phase3_bullet.deduplication # DedupAbsent
                                           THEN phase3_bullet.deduplication ELSE DedupUnique]
  ELSE [bullet EXCEPT !.deduplication = DedupUnique]

MergeDedupKeepingAbsent(bullet, phase3_bullets) ==
  IF Truthy(bullet.bullet_id) /\ InPhase3Map(phase3_bullets, bullet.bullet_id)
  THEN [bullet EXCEPT !.deduplication =
                        Phase3MapGet(phase3_bullets, bullet.bullet_id).deduplication]
  ELSE [bullet EXCEPT !.deduplication = DedupUnique]

MergeDedup(bullet, phase3_bullets) ==
  IF Truthy(bullet.bullet_id) /\ InPhase3Map(phase3_bullets, bullet.bullet_id)
  THEN LET phase3_bullet == Phase3MapGet(phase3_bullets, bullet.bullet_id)
       IN IF phase3_bullet.deduplication # DedupAbsent
          THEN [bullet EXCEPT !.deduplication = phase3_bullet.deduplication]
          ELSE [bullet EXCEPT !.deduplication = DedupUnique]
  ELSE [bullet EXCEPT !.deduplication = DedupUnique]

MergePhase3DroppingUnreturned(json, phase3_sections) ==
  [ s \in SectionSet |->
      IF s \in DedupSectionSet
      THEN LET returned == SelectSeq(json[s],
                             LAMBDA b : InPhase3Map(phase3_sections[s], b.bullet_id))
           IN [ i \in DOMAIN returned |-> MergeDedup(returned[i], phase3_sections[s]) ]
      ELSE json[s] ]

MergePhase3WithPhase2(json, phase3_sections) ==
  [ s \in SectionSet |->
      IF s \in DedupSectionSet
      THEN [ i \in DOMAIN json[s] |-> MergeDedup(json[s][i], phase3_sections[s]) ]
      ELSE json[s] ]

----------------------------------------------------------------------------
(* apply_deduplication *)

(* The bullets of the six sections in the order the second pass visits     *)
(* them, as <<section, index>> pairs.                                      *)
RECURSIVE VisitOrder(_, _)
VisitOrder(json, k) ==
  IF k = 0 THEN << >>
  ELSE VisitOrder(json, k - 1)
         \o [ i \in DOMAIN json[dedup_sections[k]] |-> <<dedup_sections[k], i>> ]

(* sorted(list(set)) *)
RECURSIVE SortedSeq(_)
SortedSeq(S) ==
  IF S = {} THEN << >>
  ELSE LET m == CHOOSE x \in S : \A y \in S : x <= y
       IN <<m>> \o SortedSeq(S \ {m})

(* bullet.get('deduplication', {'status': 'unique'}).get('status', 'unique') *)
DedupStatus(bullet) ==
  IF bullet.deduplication.kind = "absent" THEN "unique"
  ELSE IF bullet.deduplication.status = Absent THEN "unique"
  ELSE bullet.deduplication.status

(* dedup.get('absorbs', []) *)
Absorbs(bullet) ==
  IF bullet.deduplication.kind = "absent" THEN << >>
  ELSE GetIds(bullet.deduplication.absorbs)

(* all_bullets: the ids of the bullets of the six sections *)
IndexedIds(json) == UNION { BulletIdsOf(json, s) : s \in DedupSectionSet }

(* all_bullets.get(absorbed_id, {}).get('source_articles', []), the index  *)
(* covering all six sections                                               *)
AbsorbedSourcesOfSameSection(json, sources, section_name, absorbed_id) ==
  IF absorbed_id \in DOMAIN sources /\ absorbed_id \in BulletIdsOf(json, section_name)
  THEN Range(GetInts(sources[absorbed_id]))
  ELSE {}

AbsorbedSources(json, sources, section_name, absorbed_id) ==
  IF absorbed_id \in DOMAIN sources
  THEN Range(GetInts(sources[absorbed_id]))
  ELSE {}

(* A consolidation by list.extend: the absorbed source_articles are        *)
(* appended to the primary's list                                          *)
RECURSIVE Concatenated(_, _, _)
Concatenated(sources, absorbed_ids, n) ==
  IF n = 0 THEN << >>
  ELSE Concatenated(sources, absorbed_ids, n - 1)
         \o (IF absorbed_ids[n] \in DOMAIN sources
             THEN GetInts(sources[absorbed_ids[n]]) ELSE << >>)

RECURSIVE SourcesAfterExtending(_, _, _)
SourcesAfterExtending(json, order, n) ==
  IF n = 0
  THEN [ id \in IndexedIds(json) |-> BulletOfId(json, id).source_articles ]
  ELSE LET prev == SourcesAfterExtending(json, order, n - 1)
           bullet == json[order[n][1]][order[n][2]]
           absorbed_ids == Absorbs(bullet)
       IN IF DedupStatus(bullet) = "primary" /\ Len(absorbed_ids) > 0
          THEN [prev EXCEPT ![bullet.bullet_id] =
                  GetInts(prev[bullet.bullet_id])
                    \o Concatenated(prev, absorbed_ids, Len(absorbed_ids))]
          ELSE prev

(* The source_articles every indexed bullet object holds after the second  *)
(* pass has visited the first n bullets.  all_bullets refers to the very   *)
(* objects the pass rewrites, so an absorbed bullet is read as the pass    *)
(* has left it.                                                            *)
RECURSIVE SourcesAfter(_, _, _)
SourcesAfter(json, order, n) ==
  IF n = 0
  THEN [ id \in IndexedIds(json) |-> BulletOfId(json, id).source_articles ]
  ELSE LET prev == SourcesAfter(json, order, n - 1)
           bullet == json[order[n][1]][order[n][2]]
           absorbed_ids == Absorbs(bullet)
           primary_sources ==
             Range(GetInts(prev[bullet.bullet_id]))
               \cup UNION { AbsorbedSources(json, prev, order[n][1], absorbed_ids[a]) :
                              a \in DOMAIN absorbed_ids }
       IN IF DedupStatus(bullet) = "primary" /\ Len(absorbed_ids) > 0
          THEN [prev EXCEPT ![bullet.bullet_id] = SortedSeq(primary_sources)]
          ELSE prev

(* dedup.get on a deduplication that is None raises AttributeError *)
DeduplicationRaises(json) ==
  \E s \in DedupSectionSet : \E i \in DOMAIN json[s] :
    json[s][i].deduplication.kind = "null"

IsRemovedOrFilteredOut(bullet) ==
  DedupStatus(bullet) = "duplicate" \/ bullet.filter_status = "filtered_out"

IsRemoved(bullet) == DedupStatus(bullet) = "duplicate"

(* A removal of the duplicates that consolidates nothing *)
ApplyDeduplicationWithoutConsolidation(json) ==
  [ s \in SectionSet |->
      IF s \in DedupSectionSet
      THEN SelectSeq(json[s], LAMBDA b : ~IsRemoved(b))
      ELSE json[s] ]

ApplyDeduplication(json) ==
  LET order == VisitOrder(json, Len(dedup_sections))
      sources == SourcesAfter(json, order, Len(order))
  IN [ s \in SectionSet |->
         IF s \in DedupSectionSet
         THEN LET kept == SelectSeq(json[s], LAMBDA b : ~IsRemoved(b))
              IN [ i \in DOMAIN kept |->
                     [kept[i] EXCEPT !.source_articles = sources[kept[i].bullet_id]] ]
         ELSE json[s] ]

----------------------------------------------------------------------------
(* Inputs of the classifier *)

SentenceTags == { "KEEP", "REMOVE", "remove", Absent }

SeqsUpTo(S, n) == UNION { [1..k -> S] : k \in 0..n }

SectionLabels ==
  SectionSet \cup { "bottom_line", "upside_scenario", "downside_scenario",
                    "", "Wall_Street_Sentiment", "other_section" }

Items == [ sentences : SeqsUpTo(SentenceTags, MaxSentences), exempt : BOOLEAN ]

ClassifyUnset == item = Unset /\ section = Unset /\ classification = Unset
FilterUnset == ai_response = Unset /\ filter_result = Unset
ValidateUnset == enrichments = Unset /\ validation = Unset
MergeUnset ==
  /\ phase2_result = Unset
  /\ phase2_json = Unset
  /\ phase3_json = Unset
  /\ phase3_merged_json = Unset
SurvivorUnset == surviving = Unset /\ bullet_dates = Unset
RunUnset ==
  /\ phase = Unset
  /\ anthropic_api_key = Unset
  /\ gemini_api_key = Unset
  /\ primary_model = Unset
  /\ provider = Unset
  /\ attempt = Unset
  /\ content_attempt = Unset
  /\ http_attempt = Unset
  /\ last_response = Unset
  /\ provider_calls = Unset
  /\ http_requests = Unset
  /\ slept = Unset
  /\ phase_result = Unset
TimelineUnset ==
  /\ categories = Unset
  /\ unified_timeline = Unset
  /\ article_count = Unset
KnowledgeUnset ==
  /\ filings = Unset
  /\ company_releases = Unset
  /\ eight_k_filings = Unset
  /\ filing_lookup = Unset

ParseUnset == parsed = Unset /\ phase4_json = Unset

DateUnset ==
  /\ now_eastern = Unset
  /\ report_type = Unset
  /\ dated_bullets = Unset
  /\ phase4_result = Unset
  /\ consolidated = Unset

FrameUnset ==
  /\ heap = Unset
  /\ heap_before = Unset
  /\ argument_roots = Unset
  /\ result_root = Unset

LaterUnset == DateUnset /\ FrameUnset /\ deduplicated_twice = Unset

ContentUnset == TimelineUnset /\ KnowledgeUnset /\ ParseUnset /\ LaterUnset
OrchestrationUnset == SurvivorUnset /\ RunUnset /\ ContentUnset

InitClassify ==
  /\ pc = "classify"
  /\ item \in Items
  /\ section \in SectionLabels
  /\ classification = Unset
  /\ phase1_json = Unset
  /\ merged = Unset
  /\ FilterUnset /\ ValidateUnset /\ MergeUnset
  /\ OrchestrationUnset

Classify ==
  /\ pc = "classify"
  /\ classification' = ClassifyBulletWithThreshold(item, section)
  /\ pc' = "classified"
  /\ UNCHANGED <<item, section, phase1_json, filterVars, validateVars, mergeVars, merged>>
  /\ UNCHANGED orchestrationVars

NextClassify == Classify

SpecClassify == InitClassify /\ [][NextClassify]_vars

----------------------------------------------------------------------------
(* Phase 1.5 as a process: the provider answers (or fails), step 2 sets    *)
(* the verdicts, apply_filter_to_phase1 marks the Phase 1 JSON.            *)

B1 == Phase1Bullet("b1", <<0, 1>>)
B2 == Phase1Bullet("b2", <<1>>)

(* b1 in any section, b2 in a non-exempt or an exempt one, either order *)
FilterPhase1Jsons ==
  { SectionsOf(order, [b1 |-> s1, b2 |-> s2]) :
      order \in {<<B1, B2>>, <<B2, B1>>},
      s1 \in SectionSet, s2 \in {"risk_factors", "upcoming_catalysts"} }

(* b1 and b2 in any two sections, either order *)
Phase1Jsons ==
  { SectionsOf(order, [b1 |-> s1, b2 |-> s2]) :
      order \in {<<B1, B2>>, <<B2, B1>>}, s1 \in SectionSet, s2 \in SectionSet }

(* k sentences tagged REMOVE followed by n - k tagged KEEP *)
Sentences(k, n) == [ i \in 1..n |-> IF i <= k THEN "REMOVE" ELSE "KEEP" ]

SentenceLists == { Sentences(k, n) : k \in 0..MaxSentences, n \in 0..MaxSentences }

ResponseLabels == { "major_developments", "key_variables", "Wall_Street_Sentiment", Absent }

ResponseBullets ==
  [ bullet_id : {"b1", "b2"}, section : ResponseLabels,
    sentences : SentenceLists, action : {"KEEP", "REMOVE"},
    exempt : BOOLEAN ]

(* A second bullet of the response, which may repeat the id of the first *)
PlainResponseBullets ==
  [ bullet_id : {"b1", "b2"}, section : {"major_developments"},
    sentences : {<<"REMOVE">>, <<"KEEP">>}, action : {"KEEP"}, exempt : {FALSE} ]

Responses ==
  {<< >>} \cup { <<e>> : e \in ResponseBullets }
          \cup { <<e, f>> : e \in ResponseBullets, f \in PlainResponseBullets }
          \cup { <<f, e>> : e \in ResponseBullets, f \in PlainResponseBullets }

InitFilter ==
  /\ pc = "phase1"
  /\ phase1_json \in FilterPhase1Jsons
  /\ ai_response = Unset
  /\ filter_result = Unset
  /\ merged = Unset
  /\ ClassifyUnset /\ ValidateUnset /\ MergeUnset
  /\ OrchestrationUnset

(* filter_known_information with a provider that returned a JSON object *)
FilterKnownInformation ==
  /\ pc = "phase1"
  /\ \E r \in Responses :
       /\ ai_response' = r
       /\ filter_result' = FilterKnownInformationStep2(r)
  /\ pc' = "filtered"
  /\ UNCHANGED <<phase1_json, merged, classifyVars, validateVars, mergeVars>>
  /\ UNCHANGED orchestrationVars

(* filter_known_information when the provider gave no usable result *)
FilterKnownInformationFails ==
  /\ pc = "phase1"
  /\ filter_result' = None
  /\ pc' = "failed"
  /\ UNCHANGED <<phase1_json, ai_response, merged, classifyVars, validateVars, mergeVars>>
  /\ UNCHANGED orchestrationVars

ApplyFilter ==
  /\ pc = "filtered"
  /\ merged' = ApplyFilterToPhase1(phase1_json, filter_result)
  /\ pc' = "applied"
  /\ UNCHANGED <<phase1_json, filterVars, classifyVars, validateVars, mergeVars>>
  /\ UNCHANGED orchestrationVars

NextFilter == FilterKnownInformation \/ FilterKnownInformationFails \/ ApplyFilter

SpecFilter == InitFilter /\ [][NextFilter]_vars

----------------------------------------------------------------------------
(* The merge layer as a process: apply_filter_to_phase1,                   *)
(* merge_phase1_phase2 and merge_phase3_with_phase2 applied to the JSON    *)
(* the last of them returned, any number of times in any order.            *)

(* "bullets" of a filter result: at most one verdict per bullet *)
Verdicts ==
  { << >> } \cup { <<[bullet_id |-> id, action |-> a]>> : id \in {"b1", "b2"}, a \in {"KEEP", "REMOVE"} }
            \cup { <<[bullet_id |-> "b1", action |-> a1], [bullet_id |-> "b2", action |-> a2]>> :
                     a1 \in {"KEEP", "REMOVE"}, a2 \in {"KEEP", "REMOVE"} }

Enrichment(impact, context) ==
  [ impact |-> impact, sentiment |-> "bullish", reason |-> "reason given",
    relevance |-> "direct", context |-> context, entity |-> Absent ]

EnrichmentMaps(ids, values) == UNION { [D -> values] : D \in SUBSET ids }

PlainEnrichments ==
  EnrichmentMaps({"b1", "b2"},
                 { Enrichment("high impact", "filing context"), Enrichment("low impact", "") })

Phase3Bullet(id, content, deduplication) ==
  [ bullet_id |-> id, content |-> content, context |-> "", deduplication |-> deduplication ]

(* A Phase 3 response that returns a subset of the bullets of json, each   *)
(* in its own section, tagged by tag_of.                                   *)
Phase3Response(json, returned, tag_of) ==
  [ s \in SectionSet |->
      LET bs == SelectSeq(json[s], LAMBDA b : b.bullet_id \in returned)
      IN [ i \in DOMAIN bs |-> Phase3Bullet(bs[i].bullet_id, bs[i].content, tag_of[bs[i].bullet_id]) ] ]

OtherId(id) == IF id = "b1" THEN "b2" ELSE "b1"

PlainTags(id) ==
  { DedupUnique, DedupDict("duplicate", AbsentIds, OtherId(id)),
    DedupDict("primary", <<OtherId(id)>>, Absent) }

PlainPhase3Responses(json) ==
  { Phase3Response(json, DOMAIN tag_of, tag_of) :
      tag_of \in UNION { { f \in [D -> UNION { PlainTags(id) : id \in D }] :
                             \A id \in D : f[id] \in PlainTags(id) } :
                         D \in SUBSET {"b1", "b2"} } }

Init ==
  /\ pc = "phase1"
  /\ phase1_json \in Phase1Jsons
  /\ merged = phase1_json
  /\ ClassifyUnset /\ FilterUnset /\ ValidateUnset /\ MergeUnset
  /\ OrchestrationUnset

ApplyFilterToMerged ==
  /\ \E v \in Verdicts : merged' = ApplyFilterToPhase1(merged, v)
  /\ pc' = "merged"
  /\ UNCHANGED <<phase1_json, classifyVars, filterVars, validateVars, mergeVars>>
  /\ UNCHANGED orchestrationVars

MergePhase2IntoMerged ==
  /\ \E e \in PlainEnrichments : merged' = MergePhase1Phase2(merged, e)
  /\ pc' = "merged"
  /\ UNCHANGED <<phase1_json, classifyVars, filterVars, validateVars, mergeVars>>
  /\ UNCHANGED orchestrationVars

MergePhase3IntoMerged ==
  /\ \E r \in PlainPhase3Responses(merged) : merged' = MergePhase3WithPhase2(merged, r)
  /\ pc' = "merged"
  /\ UNCHANGED <<phase1_json, classifyVars, filterVars, validateVars, mergeVars>>
  /\ UNCHANGED orchestrationVars

Next == ApplyFilterToMerged \/ MergePhase2IntoMerged \/ MergePhase3IntoMerged

Spec == Init /\ [][Next]_vars

----------------------------------------------------------------------------
(* apply_filter_to_phase1 on its own, for any filter result *)

FilterActions == { "KEEP", "REMOVE", "remove", "SKIP", Absent }

FilterResultBullets == [ bullet_id : {"b1", "b2", "", Absent}, action : FilterActions ]

FilterResults ==
  { << >> } \cup { <<e>> : e \in FilterResultBullets }
            \cup { <<e, f>> : e \in FilterResultBullets, f \in FilterResultBullets }

InitApplyFilter ==
  /\ pc = "phase1"
  /\ phase1_json \in Phase1Jsons
  /\ merged = Unset
  /\ ClassifyUnset /\ FilterUnset /\ ValidateUnset /\ MergeUnset
  /\ OrchestrationUnset

ApplyAnyFilter ==
  /\ pc = "phase1"
  /\ \E r \in FilterResults :
       /\ filter_result' = r
       /\ merged' = ApplyFilterToPhase1(phase1_json, r)
  /\ pc' = "applied"
  /\ UNCHANGED <<phase1_json, ai_response, classifyVars, validateVars, mergeVars>>
  /\ UNCHANGED orchestrationVars

NextApplyFilter == ApplyAnyFilter

SpecApplyFilter == InitApplyFilter /\ [][NextApplyFilter]_vars

----------------------------------------------------------------------------
(* merge_phase1_phase2 on its own: a filtered Phase 1 JSON of three        *)
(* bullets and any enrichment payload.                                     *)

B3 == Phase1Bullet("b3", AbsentInts)

(* b1 in any section; b2 beside it or in wall_street_sentiment; b3 beside  *)
(* it or in key_variables; in either order                                 *)
ThreeBulletJsons ==
  UNION { { SectionsOf(order, [b1 |-> s1, b2 |-> s2, b3 |-> s3]) :
              order \in {<<B1, B2, B3>>, <<B3, B2, B1>>},
              s2 \in {s1, "wall_street_sentiment"}, s3 \in {s1, "key_variables"} } :
          s1 \in SectionSet }

FilteredJsons ==
  { ApplyFilterToPhase1(json, <<[bullet_id |-> "b1", action |-> "REMOVE"]>>) :
      json \in ThreeBulletJsons }

Impacts == { "high impact", "medium impact", "low impact", "high", Absent }

(* A full entry, or one that lacks impact and context *)
EnrichmentValues ==
  { Enrichment(impact, context) : impact \in Impacts \ {Absent}, context \in {"filing context", ""} }
    \cup { Enrichment(Absent, Absent) }

EnrichmentPayloads == EnrichmentMaps({"b1", "b2", "b3"}, EnrichmentValues)

InitMergePhase2 ==
  /\ pc = "filtered"
  /\ phase1_json \in FilteredJsons
  /\ merged = Unset
  /\ ClassifyUnset /\ FilterUnset /\ ValidateUnset /\ MergeUnset
  /\ OrchestrationUnset

MergePhase2 ==
  /\ pc = "filtered"
  /\ \E e \in EnrichmentPayloads :
       /\ phase2_result' = e
       /\ merged' = MergePhase1Phase2(phase1_json, e)
  /\ pc' = "enriched"
  /\ UNCHANGED <<phase1_json, classifyVars, filterVars, validateVars,
                 phase2_json, phase3_json, phase3_merged_json>>
  /\ UNCHANGED orchestrationVars

NextMergePhase2 == MergePhase2

SpecMergePhase2 == InitMergePhase2 /\ [][NextMergePhase2]_vars

----------------------------------------------------------------------------
(* merge_phase3_with_phase2 on its own: a Phase 1+2 merged JSON and any    *)
(* Phase 3 response.                                                       *)

Phase2Jsons ==
  { MergePhase1Phase2(ApplyFilterToPhase1(json, <<[bullet_id |-> "b1", action |-> "REMOVE"]>>),
                      [b1 |-> Enrichment("low impact", "filing context"),
                       b2 |-> Enrichment("high impact", "")]) :
      json \in Phase1Jsons }

Phase3Tags(id) ==
  { DedupAbsent, DedupNull, DedupUnique,
    DedupDict("primary", <<OtherId(id)>>, Absent),
    DedupDict("duplicate", AbsentIds, OtherId(id)) }

(* What Phase 3 does with one bullet: leaves it out, returns it in its own *)
(* section (content as it was or rewritten), or returns it in another one. *)
Phase3Choices(id) ==
  { [place |-> "none", content |-> "as it was", deduplication |-> DedupAbsent],
    [place |-> "other", content |-> "as it was",
     deduplication |-> DedupDict("duplicate", AbsentIds, OtherId(id))] }
    \cup [ place : {"own"}, content : {"as it was", "rewritten"}, deduplication : Phase3Tags(id) ]

OtherSection(s) == IF s = "risk_factors" THEN "major_developments" ELSE "risk_factors"

Phase3SectionsFor(json, choice) ==
  [ s \in SectionSet |->
      LET ids == { id \in DOMAIN choice :
                     \/ choice[id].place = "own" /\ SectionOfId(json, id) = s
                     \/ choice[id].place = "other" /\ OtherSection(SectionOfId(json, id)) = s }
          order == SortedSeq({ IF id = "b1" THEN 1 ELSE 2 : id \in ids })
      IN [ i \in DOMAIN order |->
             LET id == IF order[i] = 1 THEN "b1" ELSE "b2"
             IN Phase3Bullet(id,
                             IF choice[id].content = "rewritten" THEN "rewritten"
                             ELSE BulletOfId(json, id).content,
                             choice[id].deduplication) ] ]

Phase3Responses(json) ==
  { Phase3SectionsFor(json, [b1 |-> c1, b2 |-> c2]) :
      c1 \in Phase3Choices("b1"), c2 \in Phase3Choices("b2") }

InitMergePhase3 ==
  /\ pc = "enriched"
  /\ phase2_json \in Phase2Jsons
  /\ phase1_json = Unset
  /\ merged = Unset
  /\ phase2_result = Unset
  /\ phase3_json = Unset
  /\ phase3_merged_json = Unset
  /\ ClassifyUnset /\ FilterUnset /\ ValidateUnset
  /\ OrchestrationUnset

MergePhase3 ==
  /\ pc = "enriched"
  /\ \E r \in Phase3Responses(phase2_json) :
       /\ phase3_json' = r
       /\ merged' = MergePhase3WithPhase2(phase2_json, r)
  /\ pc' = "tagged"
  /\ UNCHANGED <<phase1_json, classifyVars, filterVars, validateVars,
                 phase2_result, phase2_json, phase3_merged_json>>
  /\ UNCHANGED orchestrationVars

NextMergePhase3 == MergePhase3

SpecMergePhase3 == InitMergePhase3 /\ [][NextMergePhase3]_vars

----------------------------------------------------------------------------
(* apply_deduplication on its own: a Phase 2+3 merged JSON of three        *)
(* bullets with any deduplication tags.                                    *)

Marked(bullet, status) ==
  [bullet EXCEPT !.filter_status = status,
                 !.filter_reason = IF status = "filtered_out" THEN "stale" ELSE None]

DedupLayouts ==
  { SectionsOf(order, [b1 |-> s1, b2 |-> s2, b3 |-> s3]) :
      order \in { << Marked(Phase1Bullet("b1", a1), "filtered_out"),
                     Marked(Phase1Bullet("b2", a2), "included"),
                     Marked(Phase1Bullet("b3", <<2>>), "included") >> :
                  a1 \in {<<1, 3>>, <<3, 1>>}, a2 \in {<<3, 5>>, AbsentInts} }
             \cup { << Marked(Phase1Bullet("b3", <<2>>), "included"),
                       Marked(Phase1Bullet("b2", a2), "included"),
                       Marked(Phase1Bullet("b1", a1), "filtered_out") >> :
                    a1 \in {<<1, 3>>, <<3, 1>>}, a2 \in {<<3, 5>>, AbsentInts} },
      s1 \in {"major_developments", "upcoming_catalysts"},
      s2 \in {"major_developments", "wall_street_sentiment", "key_variables"},
      s3 \in {"major_developments", "financial_performance"} }

OtherIds(id) == {"b1", "b2", "b3"} \ {id}

DedupTags(id) ==
  { DedupAbsent, DedupNull, DedupUnique, DedupDict("primary", << >>, Absent) }
    \cup { DedupDict("duplicate", AbsentIds, x) : x \in OtherIds(id) \cap {"b1", "b2"} }
    \cup { DedupDict("primary", <<x>>, Absent) : x \in OtherIds(id) }
    \cup { DedupDict("primary", <<x, y>>, Absent) :
             x \in OtherIds(id) \cap {"b1", "b2"}, y \in OtherIds(id) \cap {"b3"} }

Tagged(json, tag_of) ==
  [ s \in SectionSet |->
      [ i \in DOMAIN json[s] |->
          [json[s][i] EXCEPT !.deduplication =
             IF s = "key_variables" THEN DedupAbsent ELSE tag_of[json[s][i].bullet_id]] ] ]

Phase3MergedJsons ==
  { Tagged(json, [b1 |-> t1, b2 |-> t2, b3 |-> t3]) :
      json \in DedupLayouts,
      t1 \in DedupTags("b1"), t2 \in DedupTags("b2"), t3 \in DedupTags("b3") }

InitDedup ==
  /\ pc = "tagged"
  /\ phase3_merged_json \in Phase3MergedJsons
  /\ phase1_json = Unset
  /\ merged = Unset
  /\ phase2_result = Unset
  /\ phase2_json = Unset
  /\ phase3_json = Unset
  /\ ClassifyUnset /\ FilterUnset /\ ValidateUnset
  /\ OrchestrationUnset

ApplyDedup ==
  /\ pc = "tagged"
  /\ ~DeduplicationRaises(phase3_merged_json)
  /\ merged' = ApplyDeduplication(phase3_merged_json)
  /\ pc' = "deduplicated"
  /\ UNCHANGED <<phase1_json, classifyVars, filterVars, validateVars, mergeVars>>
  /\ UNCHANGED orchestrationVars

ApplyDedupRaises ==
  /\ pc = "tagged"
  /\ DeduplicationRaises(phase3_merged_json)
  /\ pc' = "raised"
  /\ UNCHANGED <<phase1_json, classifyVars, filterVars, validateVars, mergeVars, merged>>
  /\ UNCHANGED orchestrationVars

(* apply_deduplication called on what it has returned *)
ApplyDedupAgain ==
  /\ pc = "deduplicated"
  /\ ~DeduplicationRaises(merged)
  /\ deduplicated_twice' = ApplyDeduplication(merged)
  /\ pc' = "deduplicated twice"
  /\ UNCHANGED <<phase1_json, classifyVars, filterVars, validateVars, mergeVars, merged>>
  /\ UNCHANGED <<survivorVars, runVars, timelineVars, knowledgeVars, parseVars,
                 dateVars, frameVars>>

NextDedup == ApplyDedup \/ ApplyDedupRaises \/ ApplyDedupAgain

SpecDedup == InitDedup /\ [][NextDedup]_vars

----------------------------------------------------------------------------
(* validate_phase2_json.  The enrichments argument is a record tagged by   *)
(* "kind": a dict with its entries, or something else; so is each value.   *)

NotADict == [ kind |-> "list" ]
EnrichmentsDict(entries) == [ kind |-> "dict", entries |-> entries ]
NotAMapping == [ kind |-> "other" ]

base_required_fields == <<"context", "impact", "sentiment", "reason", "relevance">>
valid_entities == <<"Competitor", "Market", "Upstream", "Downstream">>

(* phase1_json=None (the default): no bullet has a section, as for a       *)
(* Phase 1 JSON whose sections are all empty.                              *)
NoPhase1Json == [ s \in SectionSet |-> << >> ]

(* bullet_sections.get(bullet_id, "unknown") == "competitive_industry_dynamics" *)
is_competitive_industry(json, bullet_id) ==
  /\ bullet_id \in AllBulletIds(json)
  /\ SectionOfId(json, bullet_id) = "competitive_industry_dynamics"

(* data after the loop body: falsy required fields blanked, an entity      *)
(* outside valid_entities blanked for a competitive bullet                 *)
FilledEntry(data, competitive) ==
  LET fill(f) == IF Truthy(data[f]) THEN data[f] ELSE ""
  IN [ kind |-> "dict",
       context |-> fill("context"), impact |-> fill("impact"),
       sentiment |-> fill("sentiment"), reason |-> fill("reason"),
       relevance |-> fill("relevance"),
       entity |-> IF ~competitive THEN data.entity
                  ELSE IF fill("entity") \in Range(valid_entities) THEN data.entity
                  ELSE "" ]

IsComplete(data, competitive) ==
  /\ \A f \in Range(base_required_fields) : Truthy(data[f])
  /\ competitive => Truthy(data.entity)

NoEnrichments == [ id \in {} |-> NotAMapping ]

(* A validator that drops an entry with a missing required field *)
ValidatePhase2JsonDroppingIncomplete(enr, json) ==
  IF enr.kind # "dict"
  THEN [ is_valid |-> FALSE, error_message |-> "not a dict", valid_enrichments |-> NoEnrichments ]
  ELSE IF DOMAIN enr.entries = {}
  THEN [ is_valid |-> FALSE, error_message |-> "empty", valid_enrichments |-> NoEnrichments ]
  ELSE LET accepted == { id \in DOMAIN enr.entries :
                           /\ enr.entries[id].kind = "dict"
                           /\ IsComplete(enr.entries[id], is_competitive_industry(json, id)) }
           valid == [ id \in accepted |->
                        FilledEntry(enr.entries[id], is_competitive_industry(json, id)) ]
       IN IF accepted = {}
          THEN [ is_valid |-> FALSE, error_message |-> "no valid enrichments",
                 valid_enrichments |-> NoEnrichments ]
          ELSE [ is_valid |-> TRUE,
                 error_message |-> IF accepted # DOMAIN enr.entries
                                   THEN "accepted some" ELSE "all validated",
                 valid_enrichments |-> valid ]

(* (is_valid, error_message, valid_enrichments), the message by its kind *)
ValidatePhase2Json(enr, json) ==
  IF enr.kind # "dict"
  THEN [ is_valid |-> FALSE, error_message |-> "not a dict", valid_enrichments |-> NoEnrichments ]
  ELSE IF DOMAIN enr.entries = {}
  THEN [ is_valid |-> FALSE, error_message |-> "empty", valid_enrichments |-> NoEnrichments ]
  ELSE LET accepted == { id \in DOMAIN enr.entries : enr.entries[id].kind = "dict" }
           valid == [ id \in accepted |->
                        FilledEntry(enr.entries[id], is_competitive_industry(json, id)) ]
       IN IF accepted = {}
          THEN [ is_valid |-> FALSE, error_message |-> "no valid enrichments",
                 valid_enrichments |-> NoEnrichments ]
          ELSE [ is_valid |-> TRUE,
                 error_message |-> IF accepted # DOMAIN enr.entries
                                   THEN "accepted some" ELSE "all validated",
                 valid_enrichments |-> valid ]

(* The argument after the call: the accepted entries are the argument's    *)
(* own dicts, filled in place.                                             *)
EnrichmentsAfterValidation(enr, json) ==
  IF enr.kind # "dict" THEN enr
  ELSE EnrichmentsDict(
         [ id \in DOMAIN enr.entries |->
             IF enr.entries[id].kind = "dict"
             THEN FilledEntry(enr.entries[id], is_competitive_industry(json, id))
             ELSE enr.entries[id] ])

(* An entry for b1 with any mix of present, missing, null and empty fields *)
EntriesInFull ==
  [ kind : {"dict"},
    context : {"filing context", "", None, Absent},
    impact : {"high impact", Absent},
    sentiment : {"bullish", ""},
    reason : {"reason given", None, Absent},
    relevance : {"direct", None},
    entity : {"Competitor", "Rival", "", Absent} ]
    \cup {NotAMapping}

(* For b2: complete, without reason, with an entity outside the list, or   *)
(* not a mapping                                                           *)
EntriesInBrief ==
  { [ kind |-> "dict", context |-> "filing context", impact |-> "low impact",
      sentiment |-> "bearish", reason |-> r, relevance |-> "indirect", entity |-> e ] :
      r \in {"reason given", Absent}, e \in {"Market", "Rival"} }
    \cup {NotAMapping}

EnrichmentArguments ==
  {NotADict}
    \cup { EnrichmentsDict(entries) :
             entries \in UNION { [D -> EntriesInBrief] : D \in SUBSET {"b2", "b4"} } }
    \cup { EnrichmentsDict([b1 |-> v1]) : v1 \in EntriesInFull }
    \cup { EnrichmentsDict([b1 |-> v1, b2 |-> v2]) : v1 \in EntriesInFull, v2 \in EntriesInBrief }

ValidatorPhase1Jsons ==
  {NoPhase1Json}
    \cup { SectionsOf(<<B1, B2>>, [b1 |-> s1, b2 |-> s2]) :
             s1 \in {"competitive_industry_dynamics", "major_developments"},
             s2 \in {"competitive_industry_dynamics", "risk_factors"} }

InitValidate ==
  /\ pc = "generated"
  /\ enrichments \in EnrichmentArguments
  /\ phase1_json \in ValidatorPhase1Jsons
  /\ validation = Unset
  /\ phase2_result = enrichments
  /\ phase2_json = Unset
  /\ phase3_json = Unset
  /\ phase3_merged_json = Unset
  /\ merged = Unset
  /\ ClassifyUnset /\ FilterUnset
  /\ OrchestrationUnset

Validate ==
  /\ pc = "generated"
  /\ validation' = ValidatePhase2Json(enrichments, phase1_json)
  /\ phase2_result' = EnrichmentsAfterValidation(enrichments, phase1_json)
  /\ pc' = "validated"
  /\ UNCHANGED <<phase1_json, enrichments, classifyVars, filterVars,
                 phase2_json, phase3_json, phase3_merged_json, merged>>
  /\ UNCHANGED orchestrationVars

NextValidate == Validate

SpecValidate == InitValidate /\ [][NextValidate]_vars

----------------------------------------------------------------------------
(* Phase 4: _filter_surviving_bullets *)

BULLET_SECTIONS ==
  << "major_developments", "financial_performance", "risk_factors",
     "wall_street_sentiment", "competitive_industry_dynamics", "upcoming_catalysts" >>

(* bullet.get('filter_status', '').lower() *)
FilterStatusLower(bullet) ==
  IF bullet.filter_status = Absent THEN "" ELSE Lower(bullet.filter_status)

(* bullet.get('deduplication', {}).get('status', 'unique').lower() *)
DedupStatusLower(bullet) ==
  IF bullet.deduplication.kind = "dict" /\ bullet.deduplication.status # Absent
  THEN Lower(bullet.deduplication.status)
  ELSE "unique"

(* A survivor test that looks at the deduplication status only *)
SurvivesWhateverFilterStatus(bullet) ==
  DedupStatusLower(bullet) # "duplicate"

Survives(bullet) ==
  /\ FilterStatusLower(bullet) # "filtered_out"
  /\ DedupStatusLower(bullet) # "duplicate"

(* dedup.get on a deduplication that is None, reached for a bullet that is *)
(* not filtered out, raises AttributeError                                 *)
SurvivorFilterRaises(json) ==
  \E s \in Range(BULLET_SECTIONS) : \E i \in DOMAIN json[s] :
    /\ FilterStatusLower(json[s][i]) # "filtered_out"
    /\ json[s][i].deduplication.kind = "null"

(* surviving["sections"]: the six sections only *)
FilterSurvivingBullets(json) ==
  [ s \in Range(BULLET_SECTIONS) |-> SelectSeq(json[s], Survives) ]

(* Phase 4: _collect_all_bullet_dates on the Phase 3 merged JSON *)

(* bullet.get('date_range', ''): what Phase 1 wrote for the bullet, b3     *)
(* having none                                                             *)
DateRangeOf(bullet) ==
  CASE bullet.bullet_id = "b1" -> "Dec 11"
    [] bullet.bullet_id = "b2" -> "Dec 11-12"
    [] OTHER -> ""

(* bullet.get('deduplication', {}).get('status', '').lower() *)
CollectedStatusLower(bullet) ==
  IF bullet.deduplication.kind = "dict" /\ bullet.deduplication.status # Absent
  THEN Lower(bullet.deduplication.status)
  ELSE ""

(* dedup.get on a deduplication that is None *)
CollectDatesRaises(json) ==
  \E s \in Range(BULLET_SECTIONS) : \E i \in DOMAIN json[s] :
    /\ FilterStatusLower(json[s][i]) # "filtered_out"
    /\ json[s][i].deduplication.kind = "null"

(* A collection that skips the filtered bullets only *)
CollectsDuplicates(bullet) ==
  /\ FilterStatusLower(bullet) # "filtered_out"
  /\ Truthy(DateRangeOf(bullet))

Collects(bullet) ==
  /\ FilterStatusLower(bullet) # "filtered_out"
  /\ CollectedStatusLower(bullet) # "duplicate"
  /\ Truthy(DateRangeOf(bullet))

(* dates after the first k of the BULLET_SECTIONS *)
RECURSIVE collect_all_bullet_dates(_, _)
collect_all_bullet_dates(json, k) ==
  IF k = 0 THEN << >>
  ELSE LET collected == SelectSeq(json[BULLET_SECTIONS[k]], Collects)
       IN collect_all_bullet_dates(json, k - 1)
            \o [ i \in DOMAIN collected |-> DateRangeOf(collected[i]) ]

(* Three bullets of a Phase 3 merged JSON: marked by Phase 1.5 or not,     *)
(* tagged by Phase 3 in any way, b2 possibly in key_variables              *)
SurvivorBullet(id, status, tag) ==
  [ Phase1Bullet(id, <<1>>) EXCEPT
      !.filter_status = status,
      !.filter_reason = IF status = "filtered_out" THEN "stale"
                        ELSE IF status = "included" THEN None ELSE Absent,
      !.deduplication = tag ]

SurvivorTags ==
  { DedupAbsent, DedupNull, DedupUnique, DedupDict(Absent, AbsentIds, Absent),
    DedupDict("primary", <<"b2">>, Absent), DedupDict("duplicate", AbsentIds, "b1"),
    DedupDict("Duplicate", AbsentIds, "b1") }

SurvivorInputs ==
  { SectionsOf(order, [b1 |-> s1, b2 |-> s2, b3 |-> s3]) :
      order \in UNION { { << SurvivorBullet("b1", f1, t1), SurvivorBullet("b2", f2, t2),
                             SurvivorBullet("b3", "included", t3) >>,
                          << SurvivorBullet("b3", "included", t3), SurvivorBullet("b2", f2, t2),
                             SurvivorBullet("b1", f1, t1) >> } :
                        f1 \in {Absent, "included", "filtered_out"},
                        f2 \in {"included", "filtered_out"},
                        t1 \in SurvivorTags, t2 \in SurvivorTags, t3 \in SurvivorTags },
      s1 \in {"major_developments", "upcoming_catalysts"},
      s2 \in {"major_developments", "key_variables"},
      s3 \in {"major_developments", "financial_performance"} }

InitSurvivors ==
  /\ pc = "tagged"
  /\ phase3_merged_json \in SurvivorInputs
  /\ surviving = Unset
  /\ bullet_dates = Unset
  /\ phase1_json = Unset
  /\ merged = Unset
  /\ phase2_result = Unset
  /\ phase2_json = Unset
  /\ phase3_json = Unset
  /\ ClassifyUnset /\ FilterUnset /\ ValidateUnset /\ RunUnset /\ ContentUnset

FilterSurviving ==
  /\ pc = "tagged"
  /\ ~SurvivorFilterRaises(phase3_merged_json)
  /\ surviving' = FilterSurvivingBullets(phase3_merged_json)
  /\ pc' = "survived"
  /\ UNCHANGED <<phase1_json, classifyVars, filterVars, validateVars, mergeVars, merged,
                 bullet_dates, runVars, contentVars>>

FilterSurvivingRaises ==
  /\ pc = "tagged"
  /\ SurvivorFilterRaises(phase3_merged_json)
  /\ pc' = "raised"
  /\ UNCHANGED <<phase1_json, classifyVars, filterVars, validateVars, mergeVars, merged,
                 surviving, bullet_dates, runVars, contentVars>>

(* post_process_phase4_dates collects the dates of the JSON the prompt was *)
(* built from                                                              *)
CollectBulletDates ==
  /\ pc = "survived"
  /\ ~CollectDatesRaises(phase3_merged_json)
  /\ bullet_dates' = collect_all_bullet_dates(phase3_merged_json, Len(BULLET_SECTIONS))
  /\ pc' = "collected"
  /\ UNCHANGED <<phase1_json, classifyVars, filterVars, validateVars, mergeVars, merged,
                 surviving, runVars, contentVars>>

(* The user-facing view of the same JSON *)
ProjectDeduplicated ==
  /\ pc = "collected"
  /\ ~DeduplicationRaises(phase3_merged_json)
  /\ merged' = ApplyDeduplication(phase3_merged_json)
  /\ pc' = "projected"
  /\ UNCHANGED <<phase1_json, classifyVars, filterVars, validateVars, mergeVars,
                 survivorVars, runVars, contentVars>>

ProjectDeduplicatedRaises ==
  /\ pc = "collected"
  /\ DeduplicationRaises(phase3_merged_json)
  /\ pc' = "projection raised"
  /\ UNCHANGED <<phase1_json, classifyVars, filterVars, validateVars, mergeVars, merged,
                 survivorVars, runVars, contentVars>>

NextSurvivors ==
  \/ FilterSurviving
  \/ FilterSurvivingRaises
  \/ CollectBulletDates
  \/ ProjectDeduplicated
  \/ ProjectDeduplicatedRaises

SpecSurvivors == InitSurvivors /\ [][NextSurvivors]_vars

----------------------------------------------------------------------------
(* The phase functions: provider order, retries and what they return *)

Phases == { "phase1", "phase1_5", "phase2", "phase3", "phase4" }

(* What one request to a provider comes back with: HTTP 200 with a usable  *)
(* result, 200 with a body that is cut off, that does not parse or that    *)
(* parses to nothing, an error status (400_quota: a 400 whose message      *)
(* names a quota), a timeout, a connection error.                          *)
RequestOutcomes ==
  { "200", "200_truncated", "200_unparseable", "200_empty",
    "429", "500", "503", "529", "400", "400_quota", "timeout", "network_error" }

max_retries == 2
max_attempts == 2
max_content_retries == 1

(* response.status_code in [429, 500, 503] (Phases 1, 2), with 529 added   *)
(* in Phases 3 and 4                                                       *)
ClaudeRetryStatuses(ph) ==
  IF ph \in {"phase3", "phase4"} THEN {"429", "500", "503", "529"}
  ELSE {"429", "500", "503"}

(* A request loop that retries whatever the status *)
ClaudeStepRetryingAnyStatus(ph, o, a) ==
  IF o = "200" THEN "success"
  ELSE IF a < max_retries THEN "retry"
  ELSE IF o \in {"timeout", "network_error"} /\ ph = "phase3" THEN "bare_none"
  ELSE "failure"

(* The request loop of _generate_phaseN_claude: what the provider function *)
(* does with response o to request number a (from 0).  In Phase 3 a        *)
(* timeout or connection error on the last request returns a bare None,    *)
(* every other failure the pair (None, None).                              *)
ClaudeStep(ph, o, a) ==
  IF o = "200" THEN "success"
  ELSE IF o \in ClaudeRetryStatuses(ph) \cup {"timeout", "network_error"} /\ a < max_retries
  THEN "retry"
  ELSE IF o \in {"timeout", "network_error"} /\ ph = "phase3" THEN "bare_none"
  ELSE "failure"

(* call_with_retry called without max_retries=2: its default is 3 *)
call_with_default_retries(o, a) ==
  IF o \in {"200", "200_truncated", "200_unparseable", "200_empty"} THEN "response"
  ELSE IF o \in {"429", "400_quota", "500", "503", "529"} /\ a < 3 THEN "retry"
  ELSE "None"

(* gemini_3_utils.call_with_retry: a ClientError whose text holds '429',   *)
(* 'rate' or 'quota' and every ServerError are retried; any other          *)
(* ClientError, APIError or exception (a timeout, a connection error) ends *)
(* the call with None.                                                     *)
call_with_retry(o, a) ==
  IF o \in {"200", "200_truncated", "200_unparseable", "200_empty"} THEN "response"
  ELSE IF o \in {"429", "400_quota", "500", "503", "529"} /\ a < max_retries THEN "retry"
  ELSE "None"

(* The request loop of _generate_phase4_gemini, which matches the text of  *)
(* the exception: 429, quota, 503 and timeouts are retried.                *)
Phase4GeminiRetryable(o) == o \in {"429", "400_quota", "503", "timeout"}

(* A Phase 1.5 loop that asks again only when the response looks truncated *)
GeminiStepRetryingTruncatedOnly(ph, o, a, ca) ==
  IF ph = "phase4"
  THEN IF o = "200" THEN "success"
       ELSE IF Phase4GeminiRetryable(o) /\ a < max_retries THEN "retry"
       ELSE "failure"
  ELSE IF call_with_retry(o, a) = "retry" THEN "retry"
  ELSE IF call_with_retry(o, a) = "None" THEN "failure"
  ELSE IF o = "200" THEN "success"
  ELSE IF ph = "phase1_5" /\ o = "200_truncated" /\ ca < max_content_retries
  THEN "content_retry"
  ELSE "failure"

GeminiStep(ph, o, a, ca) ==
  IF ph = "phase4"
  THEN IF o = "200" THEN "success"
       ELSE IF Phase4GeminiRetryable(o) /\ a < max_retries THEN "retry"
       ELSE "failure"
  ELSE IF call_with_retry(o, a) = "retry" THEN "retry"
  ELSE IF call_with_retry(o, a) = "None" THEN "failure"
  ELSE IF o = "200" THEN "success"
  ELSE IF ph = "phase1_5" /\ o \in {"200_truncated", "200_unparseable"}
          /\ ca < max_content_retries
  THEN "content_retry"
  ELSE "failure"

(* One time.sleep call: the provider call and the request it follows, the  *)
(* milliseconds, and whether random.uniform(0, 1) seconds are added        *)
Slept(call, request, wait) ==
  [ call |-> call, request |-> request, ms |-> wait.ms, jitter |-> wait.jitter ]

RECURSIVE Power(_, _)
Power(b, n) == IF n = 0 THEN 1 ELSE b * Power(b, n - 1)

(* wait_time = 2 ** attempt of the Claude loops and of _generate_phase4_gemini *)
ExponentialWait(a) == [ ms |-> 1000 * Power(2, a), jitter |-> FALSE ]

(* call_with_retry: (2 ** attempt) + random.uniform(0, 1) for a rate limit, *)
(* (1.5 ** attempt) + random.uniform(0, 1) for a server error              *)
GeminiWait(o, a) ==
  IF o \in {"429", "400_quota"}
  THEN [ ms |-> 1000 * Power(2, a), jitter |-> TRUE ]
  ELSE [ ms |-> (1000 * Power(3, a)) \div Power(2, a), jitter |-> TRUE ]

(* time.sleep(2) before the content retry of Phase 1.5 *)
ContentRetryWait == [ ms |-> 2000, jitter |-> FALSE ]

WaitTime(ph, p, o, a, step) ==
  IF step = "content_retry" THEN ContentRetryWait
  ELSE IF p = "claude" \/ ph = "phase4" THEN ExponentialWait(a)
  ELSE GeminiWait(o, a)

ProviderStep(ph, p, o, a, ca) ==
  IF p = "claude" THEN ClaudeStep(ph, o, a) ELSE GeminiStep(ph, o, a, ca)

(* The provider the phase function starts with *)
FirstProvider(ph, primary, akey, gkey) ==
  IF ph \in {"phase3", "phase4"} /\ primary # "gemini"
  THEN IF akey THEN "claude" ELSE IF gkey THEN "gemini" ELSE "none"
  ELSE IF gkey THEN "gemini"
  ELSE IF akey /\ ph # "phase1_5" THEN "claude"
  ELSE "none"

(* A phase function that gives the primary a third attempt *)
NextProviderWithThirdAttempt(ph, primary, p, att, akey, gkey) ==
  IF ph \in {"phase3", "phase4"} /\ primary # "gemini"
  THEN IF p = "claude" /\ att < max_attempts + 1 THEN "claude"
       ELSE IF p = "claude" /\ gkey THEN "gemini"
       ELSE "none"
  ELSE IF p = "gemini" /\ akey /\ ph # "phase1_5" THEN "claude"
  ELSE "none"

(* A phase function that falls back as soon as the primary failed once *)
NextProviderWithoutRetry(ph, primary, p, att, akey, gkey) ==
  IF ph \in {"phase3", "phase4"} /\ primary # "gemini"
  THEN IF p = "claude" /\ gkey THEN "gemini" ELSE "none"
  ELSE IF p = "gemini" /\ akey /\ ph # "phase1_5" THEN "claude"
  ELSE "none"

(* The provider the phase function turns to when provider p failed on its  *)
(* attempt number att                                                      *)
NextProvider(ph, primary, p, att, akey, gkey) ==
  IF ph \in {"phase3", "phase4"} /\ primary # "gemini"
  THEN IF p = "claude" /\ att < max_attempts THEN "claude"
       ELSE IF p = "claude" /\ gkey THEN "gemini"
       ELSE "none"
  ELSE IF p = "gemini" /\ akey /\ ph # "phase1_5" THEN "claude"
  ELSE "none"

ModelOf(ph, p) ==
  IF p = "claude" THEN "claude-sonnet-4-5-20250929"
  ELSE IF ph = "phase4" THEN "gemini-2.5-pro"
  ELSE "gemini-3-flash-preview"

IsTuplePhase(ph) == ph \in {"phase3", "phase4"}

Paragraph(content, context) ==
  [ content |-> content, context |-> context, source_articles |-> << >>, date_range |-> "" ]

NoSurvivorsParagraphs ==
  [ phase4_bottom_line |->
      Paragraph("No material developments reported for the target company this period.",
                "No relevant filing context found for this development."),
    phase4_upside_scenario |->
      Paragraph("No material upside catalysts discussed in recent articles.",
                "No relevant filing context found for this development."),
    phase4_downside_scenario |->
      Paragraph("No material downside risks discussed in recent articles.",
                "No relevant filing context found for this development.") ]

GenerationFailedParagraphs ==
  [ phase4_bottom_line |-> Paragraph("Phase 4 generation failed.", "No context available."),
    phase4_upside_scenario |-> Paragraph("Phase 4 generation failed.", "No context available."),
    phase4_downside_scenario |-> Paragraph("Phase 4 generation failed.", "No context available.") ]

Pending == [ kind |-> "pending" ]
Raised(exception) == [ kind |-> "raised", exception |-> exception ]
Returned(ph, value, usage) ==
  [ kind |-> "returned", tuple |-> IsTuplePhase(ph), value |-> value, usage |-> usage ]

NoneValue == [ kind |-> "None" ]
JsonValue == [ kind |-> "json" ]
SkippedValue == [ kind |-> "skipped" ]
ParagraphsValue(paragraphs) == [ kind |-> "paragraphs", paragraphs |-> paragraphs ]

(* The usage a provider function returns with its result: Gemini's counts  *)
(* tokens under prompt_tokens, Claude's under input_tokens (Phase 3); both *)
(* name the model.                                                         *)
ProviderUsage(ph, p) ==
  [ tokens |-> IF ph = "phase3" /\ p = "gemini" THEN "prompt_tokens" ELSE "input_tokens",
    model |-> ModelOf(ph, p) ]

(* A conversion that keeps the token counts only *)
ConvertUsageWithoutModel(ph, usage) ==
  IF ph = "phase3" /\ usage.tokens = "prompt_tokens"
  THEN [ tokens |-> "input_tokens", model |-> Absent ]
  ELSE usage

(* Phase 3: if "prompt_tokens" in usage, the usage is rewritten in Claude's *)
(* format, with usage.get("model", "gemini-3-flash-preview")                *)
ConvertUsage(ph, usage) ==
  IF ph = "phase3" /\ usage.tokens = "prompt_tokens"
  THEN [ tokens |-> "input_tokens",
         model |-> IF usage.model = Absent THEN "gemini-3-flash-preview" ELSE usage.model ]
  ELSE usage

SuccessReturn(ph, p) == Returned(ph, JsonValue, ConvertUsage(ph, ProviderUsage(ph, p)).model)

FailureReturn(ph) ==
  IF ph = "phase4" THEN Returned(ph, ParagraphsValue(GenerationFailedParagraphs), None)
  ELSE Returned(ph, NoneValue, None)

(* total_surviving = sum(len(surviving["sections"].get(s, [])) ...) *)
RECURSIVE SumOfLens(_, _)
SumOfLens(f, names) ==
  IF names = << >> THEN 0 ELSE Len(f[Head(names)]) + SumOfLens(f, Tail(names))

total_surviving(json) == SumOfLens(FilterSurvivingBullets(json), BULLET_SECTIONS)

ENRICHABLE_SECTIONS ==
  << "major_developments", "financial_performance", "risk_factors",
     "competitive_industry_dynamics", "upcoming_catalysts" >>

(* A count over all seven bullet sections *)
bullet_count_of_all_sections(json) == SumOfLens(json, bullet_section_names)

bullet_count(json) == SumOfLens(json, ENRICHABLE_SECTIONS)

(* A Phase 4 that goes to the providers whatever survived *)
EarlyReturnWithoutSurvivorCheck(ph, p1, p3) ==
  IF ph = "phase2" /\ bullet_count(p1) = 0
  THEN Returned(ph, SkippedValue, "skipped")
  ELSE Pending

(* The returns a phase function makes before it picks a provider *)
EarlyReturn(ph, p1, p3) ==
  IF ph = "phase4" /\ total_surviving(p3) = 0
  THEN Returned(ph, ParagraphsValue(NoSurvivorsParagraphs), "none")
  ELSE IF ph = "phase2" /\ bullet_count(p1) = 0
  THEN Returned(ph, SkippedValue, "skipped")
  ELSE Pending

Phase1JsonInputs ==
  { SectionsOf(order, [b1 |-> "major_developments", b2 |-> "wall_street_sentiment",
                       b3 |-> "key_variables"]) :
      order \in { << >>, << Phase1Bullet("b2", <<1>>) >>, << Phase1Bullet("b3", <<2>>) >>,
                  << Phase1Bullet("b1", <<1>>), Phase1Bullet("b3", <<2>>) >> } }

Phase4Inputs ==
  { SectionsOf(<< SurvivorBullet("b1", f1, t1), SurvivorBullet("b2", "filtered_out", DedupNull),
                  SurvivorBullet("b3", "included", DedupDict("duplicate", AbsentIds, "b1")) >>,
               [b1 |-> "major_developments", b2 |-> "risk_factors",
                b3 |-> "financial_performance"]) :
      f1 \in {"included", "filtered_out"},
      t1 \in {DedupUnique, DedupNull, DedupDict("Duplicate", AbsentIds, "b3")} }
  \cup { SectionsOf(<< >>, [b1 |-> "major_developments"]) }

InitPhases ==
  /\ pc = "start"
  /\ phase \in Phases
  /\ anthropic_api_key \in BOOLEAN
  /\ gemini_api_key \in BOOLEAN
  /\ primary_model \in IF IsTuplePhase(phase) THEN {"claude", "gemini"} ELSE {Unset}
  /\ phase1_json \in IF phase \in {"phase2", "phase1_5"} THEN Phase1JsonInputs ELSE {Unset}
  /\ phase3_merged_json \in IF phase = "phase4" THEN Phase4Inputs ELSE {Unset}
  /\ provider = "none"
  /\ attempt = 0
  /\ content_attempt = 0
  /\ http_attempt = 0
  /\ last_response = "none"
  /\ provider_calls = << >>
  /\ http_requests = 0
  /\ slept = << >>
  /\ phase_result = Pending
  /\ surviving = Unset
  /\ bullet_dates = Unset
  /\ merged = Unset
  /\ phase2_result = Unset
  /\ phase2_json = Unset
  /\ phase3_json = Unset
  /\ ClassifyUnset /\ FilterUnset /\ ValidateUnset /\ ContentUnset

runInputs == <<phase, anthropic_api_key, gemini_api_key, primary_model>>
notRunVars == <<classifyVars, phase1_json, filterVars, validateVars, mergeVars, merged,
                survivorVars, contentVars>>

(* Phase 4: _filter_surviving_bullets raises on a null deduplication *)
Phase4FilterRaises ==
  /\ pc = "start"
  /\ phase = "phase4"
  /\ SurvivorFilterRaises(phase3_merged_json)
  /\ phase_result' = Raised("AttributeError")
  /\ pc' = "raised"
  /\ UNCHANGED <<runInputs, provider, attempt, content_attempt, http_attempt, last_response,
                 provider_calls, http_requests, slept, notRunVars>>

Entered ==
  /\ pc = "start"
  /\ ~(phase = "phase4" /\ SurvivorFilterRaises(phase3_merged_json))

(* Nothing to do: the fixed result, no provider *)
ReturnEarly ==
  /\ Entered
  /\ EarlyReturn(phase, phase1_json, phase3_merged_json) # Pending
  /\ phase_result' = EarlyReturn(phase, phase1_json, phase3_merged_json)
  /\ pc' = "returned"
  /\ UNCHANGED <<runInputs, provider, attempt, content_attempt, http_attempt, last_response,
                 provider_calls, http_requests, slept, notRunVars>>

(* No key for any provider the phase may use *)
ReturnWithoutProvider ==
  /\ Entered
  /\ EarlyReturn(phase, phase1_json, phase3_merged_json) = Pending
  /\ FirstProvider(phase, primary_model, anthropic_api_key, gemini_api_key) = "none"
  /\ phase_result' = FailureReturn(phase)
  /\ pc' = "returned"
  /\ UNCHANGED <<runInputs, provider, attempt, content_attempt, http_attempt, last_response,
                 provider_calls, http_requests, slept, notRunVars>>

CallFirstProvider ==
  /\ Entered
  /\ EarlyReturn(phase, phase1_json, phase3_merged_json) = Pending
  /\ FirstProvider(phase, primary_model, anthropic_api_key, gemini_api_key) # "none"
  /\ provider' = FirstProvider(phase, primary_model, anthropic_api_key, gemini_api_key)
  /\ provider_calls' = << provider' >>
  /\ attempt' = 1
  /\ pc' = "calling"
  /\ UNCHANGED <<runInputs, content_attempt, http_attempt, last_response, http_requests,
                 slept, phase_result, notRunVars>>

(* One request is sent and comes back with o *)
Requested(o, step) ==
  /\ pc = "calling"
  /\ ProviderStep(phase, provider, o, http_attempt, content_attempt) = step
  /\ last_response' = o
  /\ http_requests' = http_requests + 1
  /\ slept' = IF step \in {"retry", "content_retry"}
              THEN Append(slept, Slept(Len(provider_calls), http_attempt,
                                       WaitTime(phase, provider, o, http_attempt, step)))
              ELSE slept

RequestRetried ==
  \E o \in RequestOutcomes :
    /\ Requested(o, "retry")
    /\ http_attempt' = http_attempt + 1
    /\ UNCHANGED <<runInputs, pc, provider, attempt, content_attempt, provider_calls,
                   phase_result, notRunVars>>

ContentRetried ==
  \E o \in RequestOutcomes :
    /\ Requested(o, "content_retry")
    /\ content_attempt' = content_attempt + 1
    /\ http_attempt' = 0
    /\ UNCHANGED <<runInputs, pc, provider, attempt, provider_calls, phase_result, notRunVars>>

ProviderSucceeded ==
  \E o \in RequestOutcomes :
    /\ Requested(o, "success")
    /\ phase_result' = SuccessReturn(phase, provider)
    /\ pc' = "returned"
    /\ UNCHANGED <<runInputs, provider, attempt, content_attempt, http_attempt,
                   provider_calls, notRunVars>>

ProviderFailedFallback ==
  \E o \in RequestOutcomes :
    LET next == NextProvider(phase, primary_model, provider, attempt,
                             anthropic_api_key, gemini_api_key)
    IN /\ Requested(o, "failure")
       /\ next # "none"
       /\ provider' = next
       /\ provider_calls' = Append(provider_calls, next)
       /\ attempt' = IF next = provider THEN attempt + 1 ELSE attempt
       /\ http_attempt' = 0
       /\ content_attempt' = 0
       /\ UNCHANGED <<runInputs, pc, phase_result, notRunVars>>

ProviderFailedLast ==
  \E o \in RequestOutcomes :
    /\ Requested(o, "failure")
    /\ NextProvider(phase, primary_model, provider, attempt,
                    anthropic_api_key, gemini_api_key) = "none"
    /\ phase_result' = FailureReturn(phase)
    /\ pc' = "returned"
    /\ UNCHANGED <<runInputs, provider, attempt, content_attempt, http_attempt,
                   provider_calls, notRunVars>>

(* final_merged, usage = claude_result with claude_result = None *)
UnpackRaises ==
  \E o \in RequestOutcomes :
    /\ Requested(o, "bare_none")
    /\ phase_result' = Raised("TypeError")
    /\ pc' = "raised"
    /\ UNCHANGED <<runInputs, provider, attempt, content_attempt, http_attempt,
                   provider_calls, notRunVars>>

NextPhases ==
  \/ Phase4FilterRaises
  \/ ReturnEarly
  \/ ReturnWithoutProvider
  \/ CallFirstProvider
  \/ RequestRetried
  \/ ContentRetried
  \/ ProviderSucceeded
  \/ ProviderFailedFallback
  \/ ProviderFailedLast
  \/ UnpackRaises

SpecPhases == InitPhases /\ [][NextPhases]_vars

----------------------------------------------------------------------------
(* Phase 1.5 as the pipeline runs it: has_phase1_bullets, then the filter *)

(* A value found under a section key: a list of bullets, null, some other  *)
(* value that is not a list, or no key at all                              *)
ListValue(items) == [ kind |-> "list", items |-> items ]
NullValue == [ kind |-> "null" ]
OtherValue == [ kind |-> "other" ]
AbsentValue == [ kind |-> "absent" ]

(* sections.get(section_name, []) *)
SectionData(json, s) == IF json[s].kind = "absent" THEN ListValue(<< >>) ELSE json[s]

(* A check that takes any value under a section key for bullets *)
has_phase1_bullets_without_isinstance(json) ==
  \E i \in DOMAIN bullet_section_names :
    LET section_data == SectionData(json, bullet_section_names[i])
    IN section_data.kind = "other" \/ (section_data.kind = "list" /\ Len(section_data.items) > 0)

has_phase1_bullets(json) ==
  \E i \in DOMAIN bullet_section_names :
    LET section_data == SectionData(json, bullet_section_names[i])
    IN section_data.kind = "list" /\ Len(section_data.items) > 0

PipelineInputs ==
  { [ s \in SectionSet |->
        CASE s = "major_developments" -> md
          [] s = "wall_street_sentiment" -> wss
          [] s = "key_variables" -> kv
          [] OTHER -> ListValue(<< >>) ] :
      md \in { ListValue(<< >>), ListValue(<< Phase1Bullet("b1", <<1>>) >>), NullValue,
               AbsentValue },
      wss \in { ListValue(<< >>), ListValue(<< Phase1Bullet("b2", <<1>>) >>) },
      kv \in { ListValue(<< >>), OtherValue } }

InitPipeline ==
  /\ pc = "phase1_done"
  /\ phase = "phase1_5"
  /\ anthropic_api_key \in BOOLEAN
  /\ gemini_api_key \in BOOLEAN
  /\ primary_model = Unset
  /\ phase1_json \in PipelineInputs
  /\ phase3_merged_json = Unset
  /\ provider = "none"
  /\ attempt = 0
  /\ content_attempt = 0
  /\ http_attempt = 0
  /\ last_response = "none"
  /\ provider_calls = << >>
  /\ http_requests = 0
  /\ slept = << >>
  /\ phase_result = Pending
  /\ surviving = Unset
  /\ bullet_dates = Unset
  /\ merged = Unset
  /\ phase2_result = Unset
  /\ phase2_json = Unset
  /\ phase3_json = Unset
  /\ ClassifyUnset /\ FilterUnset /\ ValidateUnset /\ ContentUnset

(* No bullets: Phase 1.5 is skipped and the Phase 1 JSON goes on as it is *)
SkipFilter ==
  /\ pc = "phase1_done"
  /\ ~has_phase1_bullets(phase1_json)
  /\ merged' = phase1_json
  /\ pc' = "skipped"
  /\ UNCHANGED <<classifyVars, phase1_json, filterVars, validateVars, mergeVars, survivorVars,
                 runVars, contentVars>>

(* Bullets: filter_known_information is called *)
EnterFilter ==
  /\ pc = "phase1_done"
  /\ has_phase1_bullets(phase1_json)
  /\ pc' = "start"
  /\ UNCHANGED <<notRunVars, runVars>>

NextPipeline ==
  \/ SkipFilter
  \/ EnterFilter
  \/ ReturnWithoutProvider
  \/ CallFirstProvider
  \/ RequestRetried
  \/ ContentRetried
  \/ ProviderSucceeded
  \/ ProviderFailedLast

SpecPipeline == InitPipeline /\ [][NextPipeline]_vars

----------------------------------------------------------------------------
(* Phase 1: validate_phase1_json *)

(* The JSON as the provider returned it.  A section key holds a list, null, *)
(* another non-list value or is missing (ListValue .. AbsentValue); a list  *)
(* item is a dict or not; filing_hints and source_articles are missing,     *)
(* something else than a dict / a list, or a dict / a list.                 *)
FilingTypes == { "10-K", "10-Q", "Transcript" }

HintsAbsent == [ kind |-> "absent" ]
HintsOther == [ kind |-> "other" ]
HintsDict(k, q, t) ==
  [ kind |-> "dict", entries |-> [ ft \in FilingTypes |->
      CASE ft = "10-K" -> k [] ft = "10-Q" -> q [] OTHER -> t ] ]

(* A value under a filing type: no key, a list, or a string *)
EmptyList == "[]"
Item7List == "['Item 7']"
Item7String == "'Item 7'"
IsListValue(v) == v \in {EmptyList, Item7List}

SourceAbsent == [ kind |-> "absent" ]
SourceOther == [ kind |-> "other" ]
SourceList(items) == [ kind |-> "list", items |-> items ]

(* An element of source_articles: an int, a bool (True), a float (1.5), a   *)
(* string                                                                   *)
IntElement(n) == [ kind |-> "int", val |-> n ]
BoolElement == [ kind |-> "bool", val |-> 1 ]
FloatElement == [ kind |-> "float", val |-> 1 ]
StrElement == [ kind |-> "str", val |-> 0 ]

NonDictBullet == [ kind |-> "other" ]
DictBullet(id, topic, content, hints, sa) ==
  [ kind |-> "dict", bullet_id |-> id, topic_label |-> topic, content |-> content,
    filing_hints |-> hints, source_articles |-> sa ]

NoError == [ kind |-> "", sec |-> "", bullet |-> -1, field |-> "", idx |-> -1 ]
ValidationError(kind, sec, bullet, field, idx) ==
  [ kind |-> kind, sec |-> sec, bullet |-> bullet, field |-> field, idx |-> idx ]

SetMin(S) == CHOOSE x \in S : \A y \in S : x <= y

(* isinstance(val, int): bool is a subclass of int *)
IsInstanceInt(val) == val.kind \in {"int", "bool"}

(* _validate_source_articles; context is the section and the bullet index *)
ValidateSourceArticles(sa, sec, i) ==
  IF sa.kind # "list"
  THEN ValidationError("source_articles must be array", sec, i, "", -1)
  ELSE LET bad == { idx \in DOMAIN sa.items :
                      ~IsInstanceInt(sa.items[idx]) \/ sa.items[idx].val < 0 }
       IN IF bad = {} THEN NoError
          ELSE ValidationError("source_articles must be non-negative integer",
                               sec, i, "", SetMin(bad) - 1)

required_fields == << "bullet_id", "topic_label", "content" >>

FieldOf(b, field) ==
  CASE field = "bullet_id" -> b.bullet_id
    [] field = "topic_label" -> b.topic_label
    [] OTHER -> b.content

(* The checks of one list item, in the order of the code; i from 0 *)
BulletError(b, sec, i) ==
  IF b.kind # "dict" THEN ValidationError("must be object", sec, i, "", -1)
  ELSE LET missing == { k \in DOMAIN required_fields : FieldOf(b, required_fields[k]) = Absent }
       IN IF missing # {}
          THEN ValidationError("missing field", sec, i, required_fields[SetMin(missing)], -1)
          ELSE IF b.source_articles.kind = "absent" THEN NoError
          ELSE ValidateSourceArticles(b.source_articles, sec, i)

SectionError(v, sec) ==
  IF v.kind # "list" THEN ValidationError("must be array", sec, -1, "", -1)
  ELSE LET bad == { k \in DOMAIN v.items : BulletError(v.items[k], sec, k - 1) # NoError }
       IN IF bad = {} THEN NoError
          ELSE BulletError(v.items[SetMin(bad)], sec, SetMin(bad) - 1)

required_sections ==
  << "major_developments", "financial_performance", "risk_factors",
     "wall_street_sentiment", "competitive_industry_dynamics",
     "upcoming_catalysts", "key_variables" >>

bullet_sections ==
  << "major_developments", "financial_performance", "risk_factors",
     "wall_street_sentiment", "competitive_industry_dynamics", "upcoming_catalysts" >>

(* The first error of the sections of names, in that order *)
RECURSIVE FirstSectionError(_, _)
FirstSectionError(sections, names) ==
  IF names = << >> THEN NoError
  ELSE IF SectionError(sections[Head(names)], Head(names)) # NoError
  THEN SectionError(sections[Head(names)], Head(names))
  ELSE FirstSectionError(sections, Tail(names))

Phase1Error(json) ==
  IF ~json.has_sections THEN ValidationError("Missing 'sections' key", "", -1, "", -1)
  ELSE LET missing == { k \in DOMAIN required_sections :
                          json.sections[required_sections[k]].kind = "absent" }
       IN IF missing # {}
          THEN ValidationError("Missing required section", required_sections[SetMin(missing)],
                               -1, "", -1)
          ELSE FirstSectionError(json.sections, bullet_sections \o << "key_variables" >>)

(* An auto-fix that replaces what is not a dict and leaves a dict alone *)
FixedHintsOfNonDicts(hints) ==
  IF hints.kind # "dict" THEN HintsDict(EmptyList, EmptyList, EmptyList) ELSE hints

(* The auto-fix of filing_hints *)
FixedHints(hints) ==
  IF hints.kind # "dict" THEN HintsDict(EmptyList, EmptyList, EmptyList)
  ELSE [ hints EXCEPT !.entries =
           [ ft \in FilingTypes |->
               IF IsListValue(hints.entries[ft]) THEN hints.entries[ft] ELSE EmptyList ] ]

SectionIndex(sec) == CHOOSE k \in DOMAIN required_sections : required_sections[k] = sec

(* Whether the loop reached the auto-fix of bullet i (from 0) of section   *)
(* sec before it returned with error e.  The fix comes after the checks of  *)
(* the item and its required fields and before the one of source_articles.  *)
ReachedFix(e, sec, i) ==
  \/ e = NoError
  \/ e.sec = "key_variables"
  \/ e.bullet >= 0 /\ SectionIndex(sec) < SectionIndex(e.sec)
  \/ e.bullet >= 0 /\ sec = e.sec /\ i < e.bullet
  \/ e.bullet >= 0 /\ sec = e.sec /\ i = e.bullet
       /\ e.kind \in { "source_articles must be array",
                       "source_articles must be non-negative integer" }
  \/ e.kind = "must be array" /\ SectionIndex(sec) < SectionIndex(e.sec)

FixedBullet(b, e, sec, i) ==
  IF b.kind = "dict" /\ ReachedFix(e, sec, i)
  THEN [ b EXCEPT !.filing_hints = FixedHints(b.filing_hints) ]
  ELSE b

(* json_output after the call: the bullets of the six bullet sections that *)
(* the loop reached have their filing_hints fixed in place.                *)
JsonAfterValidation(json) ==
  LET e == Phase1Error(json)
  IN IF e.kind \in { "Missing 'sections' key", "Missing required section" } THEN json
     ELSE [ json EXCEPT !.sections =
              [ s \in SectionSet |->
                  IF s \in Range(bullet_sections) /\ json.sections[s].kind = "list"
                  THEN ListValue([ k \in DOMAIN json.sections[s].items |->
                                     FixedBullet(json.sections[s].items[k], e, s, k - 1) ])
                  ELSE json.sections[s] ] ]

validate_phase1_json(json) ==
  [ is_valid |-> Phase1Error(json) = NoError, error |-> Phase1Error(json) ]

HintsValues ==
  { HintsAbsent, HintsOther, HintsDict(EmptyList, Item7List, EmptyList),
    HintsDict(Item7List, Absent, EmptyList), HintsDict(EmptyList, EmptyList, Item7String) }

SourceValues ==
  { SourceAbsent, SourceOther, SourceList(<< >>), SourceList(<< IntElement(1) >>),
    SourceList(<< IntElement(0), IntElement(2) >>),
    SourceList(<< IntElement(1), IntElement(-1) >>),
    SourceList(<< BoolElement >>),
    SourceList(<< IntElement(1), StrElement, IntElement(-1) >>),
    SourceList(<< FloatElement >>) }

GoodBullet(id) ==
  DictBullet(id, TopicLabel(id), Content(id), HintsDict(EmptyList, EmptyList, EmptyList),
             SourceList(<< IntElement(1) >>))

FirstBullets ==
  { DictBullet("b1", TopicLabel("b1"), Content("b1"), h, sa) :
      h \in HintsValues, sa \in SourceValues }
  \cup { NonDictBullet, DictBullet("b1", TopicLabel("b1"), Absent, HintsAbsent, SourceOther),
         DictBullet(Absent, Absent, Content("b1"), HintsOther, SourceAbsent) }

MajorDevelopmentsValues ==
  { AbsentValue, NullValue, ListValue(<< >>) }
  \cup { ListValue(<< b >>) : b \in FirstBullets }
  \cup { ListValue(<< GoodBullet("b1"), DictBullet("b2", TopicLabel("b2"), Content("b2"), h, sa) >>) :
           h \in {HintsAbsent, HintsDict(EmptyList, EmptyList, EmptyList)},
           sa \in { SourceList(<< IntElement(1), IntElement(-1) >>), SourceList(<< BoolElement >>),
                    SourceList(<< IntElement(3) >>) } }

KeyVariablesValues ==
  { AbsentValue, OtherValue, ListValue(<< >>) }
  \cup { ListValue(<< DictBullet("b3", TopicLabel("b3"), Content("b3"), h, sa) >>) :
           h \in {HintsAbsent, HintsOther, HintsDict(EmptyList, Item7List, EmptyList)},
           sa \in { SourceAbsent, SourceList(<< IntElement(-1) >>),
                    SourceList(<< IntElement(2) >>) } }
  \cup { ListValue(<< DictBullet("b3", Absent, Content("b3"), HintsAbsent, SourceAbsent) >>) }

JsonOutputs ==
  { [ has_sections |-> TRUE,
      sections |-> [ s \in SectionSet |->
        CASE s = "major_developments" -> md
          [] s = "risk_factors" -> rf
          [] s = "key_variables" -> kv
          [] OTHER -> ListValue(<< >>) ] ] :
      md \in MajorDevelopmentsValues,
      rf \in { ListValue(<< >>), OtherValue,
               ListValue(<< DictBullet("b4", "topic 4", "content 4", HintsOther, SourceAbsent) >>) },
      kv \in KeyVariablesValues }
  \cup { [ has_sections |-> FALSE, sections |-> [ s \in SectionSet |-> AbsentValue ] ] }

InitValidatePhase1 ==
  /\ pc = "generated"
  /\ phase1_json \in JsonOutputs
  /\ validation = Unset
  /\ enrichments = Unset
  /\ merged = Unset
  /\ phase2_result = Unset
  /\ phase2_json = Unset
  /\ phase3_json = Unset
  /\ phase3_merged_json = Unset
  /\ ClassifyUnset /\ FilterUnset /\ OrchestrationUnset

(* validate_phase1_json(json_output): the result, and json_output fixed in place *)
ValidatePhase1 ==
  /\ pc = "generated"
  /\ validation' = validate_phase1_json(phase1_json)
  /\ phase1_json' = JsonAfterValidation(phase1_json)
  /\ pc' = "validated"
  /\ UNCHANGED <<classifyVars, filterVars, enrichments, mergeVars, merged, orchestrationVars>>

NextValidatePhase1 == ValidatePhase1

SpecValidatePhase1 == InitValidatePhase1 /\ [][NextValidatePhase1]_vars

----------------------------------------------------------------------------
(* Phase 1: the article timeline of _build_phase1_user_content *)

pipelineVars == <<classifyVars, phase1_json, filterVars, validateVars, mergeVars, merged,
                  survivorVars, runVars>>

PipelineUnset ==
  /\ phase1_json = Unset
  /\ merged = Unset
  /\ ClassifyUnset /\ FilterUnset /\ ValidateUnset /\ MergeUnset
  /\ SurvivorUnset /\ RunUnset

MaxArticles == 2

CategoryNames == << "company", "industry", "competitor", "upstream", "downstream" >>

(* published_at: a timezone-aware datetime (its day, from 1), None, or no   *)
(* key.  ai_summary: a text, "", or no key.                                 *)
PublishedOn(day) == [ kind |-> "datetime", day |-> day ]
PublishedNone == [ kind |-> "none", day |-> 0 ]
PublishedAbsent == [ kind |-> "absent", day |-> 0 ]

Article(id, ai_summary, published_at) ==
  [ id |-> id, ai_summary |-> ai_summary, published_at |-> published_at ]

(* if article.get("ai_summary") *)
IsFlagged(article) == Truthy(article.ai_summary)

category_tag(name) ==
  CASE name = "company" -> "[COMPANY]"
    [] name = "industry" -> "[INDUSTRY - keyword]"
    [] name = "competitor" -> "[COMPETITOR]"
    [] name = "upstream" -> "[UPSTREAM]"
    [] OTHER -> "[DOWNSTREAM]"

Tagged_(article, name) ==
  [ id |-> article.id, ai_summary |-> article.ai_summary,
    published_at |-> article.published_at, category_tag |-> category_tag(name) ]

(* all_flagged_articles before the sort: the flagged articles, category by *)
(* category, each list in its order                                        *)
RECURSIVE CollectFlagged(_, _)
CollectFlagged(cats, names) ==
  IF names = << >> THEN << >>
  ELSE LET name == Head(names)
           flagged == SelectSeq(cats[name], IsFlagged)
       IN [ i \in DOMAIN flagged |-> Tagged_(flagged[i], name) ]
            \o CollectFlagged(cats, Tail(names))

(* A sort key that puts the articles without a timestamp first *)
SortKeyMissingNewest(article) ==
  IF article.published_at.kind = "datetime" THEN article.published_at.day ELSE 99

(* x.get("published_at") or datetime.min: day 0 stands for datetime.min *)
SortKey(article) ==
  IF article.published_at.kind = "datetime" THEN article.published_at.day ELSE 0

(* list.sort(key=..., reverse=True): descending, equal keys in their       *)
(* original order                                                          *)
RECURSIVE InsertDescending(_, _)
InsertDescending(sorted, article) ==
  IF sorted = << >> THEN << article >>
  ELSE IF SortKey(Head(sorted)) >= SortKey(article)
  THEN << Head(sorted) >> \o InsertDescending(Tail(sorted), article)
  ELSE << article >> \o sorted

RECURSIVE SortDescending(_)
SortDescending(articles) ==
  IF articles = << >> THEN << >>
  ELSE InsertDescending(SortDescending(SubSeq(articles, 1, Len(articles) - 1)),
                        articles[Len(articles)])

date_str(article) ==
  IF article.published_at.kind = "datetime" THEN "day" ELSE "Unknown date"

(* The timeline lines: [timeline_idx] category_tag title [source] date: summary *)
UnifiedTimeline(cats) ==
  LET all_flagged_articles == SortDescending(CollectFlagged(cats, CategoryNames))
      shown == SelectSeq(all_flagged_articles, IsFlagged)
  IN [ i \in DOMAIN shown |->
         [ timeline_idx |-> i - 1, id |-> shown[i].id, category_tag |-> shown[i].category_tag,
           date_str |-> date_str(shown[i]), published_at |-> shown[i].published_at ] ]

(* len(all_flagged_articles) *)
ArticleCount(cats) == Len(CollectFlagged(cats, CategoryNames))

ArticleVariants(id) ==
  { Article(id, s, p) : s \in {"summary", ""},
                        p \in {PublishedOn(1), PublishedOn(2), PublishedNone} }

RECURSIVE ArticleLists(_)
ArticleLists(n) ==
  IF n = 0 THEN { << >> }
  ELSE ArticleLists(n - 1)
       \cup { Append(l, a) : l \in { m \in ArticleLists(n - 1) : Len(m) = n - 1 },
                             a \in IF n = 1 THEN ArticleVariants("a1")
                                   ELSE IF n = 2 THEN ArticleVariants("a2")
                                   ELSE ArticleVariants("a3") }

CategoryInputs ==
  { [ company |-> c, industry |-> i, competitor |-> k, upstream |-> u, downstream |-> d ] :
      c \in ArticleLists(MaxArticles),
      i \in { << >> } \cup { << Article("i1", "summary", p) >> :
                               p \in {PublishedOn(1), PublishedOn(2), PublishedAbsent} },
      k \in { << >>, << Article("k1", Absent, PublishedOn(2)) >>,
              << Article("k1", "summary", PublishedOn(2)) >> },
      u \in { << >>, << Article("u1", "summary", PublishedNone) >> },
      d \in { << >>, << Article("d1", "summary", PublishedOn(1)) >> } }

InitTimeline ==
  /\ pc = "collected"
  /\ categories \in CategoryInputs
  /\ unified_timeline = Unset
  /\ article_count = Unset
  /\ PipelineUnset
  /\ KnowledgeUnset /\ ParseUnset /\ LaterUnset

BuildTimeline ==
  /\ pc = "collected"
  /\ unified_timeline' = UnifiedTimeline(categories)
  /\ article_count' = ArticleCount(categories)
  /\ pc' = "built"
  /\ UNCHANGED <<categories, pipelineVars, knowledgeVars, parseVars, laterVars>>

NextTimeline == BuildTimeline

SpecTimeline == InitTimeline /\ [][NextTimeline]_vars

----------------------------------------------------------------------------
(* Phase 1.5: the filings of the knowledge base *)

MaxReleases == 2

(* Dates are counted in days before date.today() *)
T7Days == 7
MaxLookbackDays == 90

TranscriptAbsent == [ kind |-> "absent", days_ago |-> 0 ]
TranscriptUndated == [ kind |-> "undated", days_ago |-> 0 ]
TranscriptDated(days_ago) == [ kind |-> "dated", days_ago |-> days_ago ]

(* last_transcript_date of filter_known_information, and start_date:        *)
(* max(last_transcript_date, max_lookback), or max_lookback without a date  *)
StartDaysAgo(fetched) ==
  IF fetched.transcript.kind = "dated" /\ fetched.transcript.days_ago < MaxLookbackDays
  THEN fetched.transcript.days_ago
  ELSE MaxLookbackDays

MaterialItemCodes ==
  { "1.01", "1.02", "2.01", "2.02", "2.03", "2.05", "2.06", "4.01", "4.02", "5.01", "5.02",
    "5.07", "7.01", "8.01" }

(* Layer 1: item_codes LIKE one of the material codes, or = 'Unknown' *)
Layer1(row) == row.item_codes \cap MaterialItemCodes # {} \/ row.item_codes = {"Unknown"}

(* Layer 2: exhibit_number LIKE '99%', = 'MAIN' or = '2.1' *)
Layer2(row) == row.exhibit_number \in {"99.1", "MAIN", "2.1"}

(* Layer 3: the title holds none of the boilerplate phrases *)
Layer3(row) ==
  row.report_title \notin { "Legal Opinion", "Underwriting Agreement", "Indenture",
                            "Officers' Certificate", "Notes Due", "Bylaws" }

(* A time window that has no end date *)
InTimeWindowWithoutEnd(row, fetched) == row.days_ago < StartDaysAgo(fetched)

(* filing_date > start_date AND filing_date <= end_date, end_date = today - 7 days *)
InTimeWindow(row, fetched) ==
  /\ row.days_ago < StartDaysAgo(fetched)
  /\ row.days_ago >= T7Days

(* The WHERE clause of filtered_8k *)
Filtered8k(releases, fetched) ==
  { i \in DOMAIN releases :
      /\ InTimeWindow(releases[i], fetched)
      /\ Layer1(releases[i]) /\ Layer2(releases[i]) /\ Layer3(releases[i]) }

(* ORDER BY CASE exhibit_number ... END *)
ExhibitRank(row) ==
  CASE row.exhibit_number = "MAIN" -> 0
    [] row.exhibit_number = "2.1" -> 1
    [] OTHER -> 2

(* row a is not after row b in "filing_date DESC, rn ASC"; rows of one date *)
(* and one exhibit number have no order of their own                        *)
NotAfter(a, b) ==
  \/ a.days_ago < b.days_ago
  \/ a.days_ago = b.days_ago /\ ExhibitRank(a) <= ExhibitRank(b)

(* The orders in which the query can number the filtered rows *)
QueryOrders(releases, fetched) ==
  LET rows == Filtered8k(releases, fetched)
      n == Cardinality(rows)
  IN { order \in [1..n -> rows] :
         /\ \A i, j \in 1..n : i # j => order[i] # order[j]
         /\ \A i, j \in 1..n : i < j => NotAfter(releases[order[i]], releases[order[j]]) }

(* rn: the place of the row among the rows of its filing date *)
RowNumber(releases, order, i) ==
  Cardinality({ j \in 1..i : releases[order[j]].days_ago = releases[order[i]].days_ago })

(* WHERE rn <= 3, and the dicts built from the rows *)
RowsFetched(releases, order) ==
  LET kept == SelectSeq([ i \in DOMAIN order |-> [ at |-> i, row |-> order[i] ] ],
                        LAMBDA e : RowNumber(releases, order, e.at) <= 3)
  IN [ i \in DOMAIN kept |->
         [ filing_days_ago |-> releases[kept[i].row].days_ago,
           report_title |-> releases[kept[i].row].report_title,
           item_codes |-> releases[kept[i].row].item_codes,
           summary_markdown |-> kept[i].row ] ]

FilingId(prefix, n) == [ prefix |-> prefix, n |-> n ]

(* The transcript block: left out when filed after the T-7 cutoff *)
TranscriptSources(fetched) ==
  IF fetched.transcript.kind = "absent" THEN << >>
  ELSE IF fetched.transcript.kind = "dated" /\ fetched.transcript.days_ago < T7Days
  THEN << >>
  ELSE << [ filing_id |-> FilingId("TRANSCRIPT", 1), type |-> "Transcript",
            dated |-> fetched.transcript.kind = "dated",
            days_ago |-> fetched.transcript.days_ago, summary_markdown |-> 0 ] >>

(* The 8-K block: for i, filing in enumerate(eight_k_filings, start=1) *)
EightKSources(eight_k) ==
  [ i \in DOMAIN eight_k |->
      [ filing_id |-> FilingId("8K", i), type |-> "8-K", dated |-> TRUE,
        days_ago |-> eight_k[i].filing_days_ago,
        summary_markdown |-> eight_k[i].summary_markdown ] ]

(* filing_lookup, in the order the filings are written to the content *)
FilingLookup(fetched, eight_k) == TranscriptSources(fetched) \o EightKSources(eight_k)

ReleaseDays == { 2, 7, 20, 95 }
TranscriptDays == { 3, 7, 30 }

ReleaseRows ==
  { [ days_ago |-> d, item_codes |-> k.codes, exhibit_number |-> k.exhibit,
      report_title |-> k.title ] :
      d \in ReleaseDays,
      k \in { [ codes |-> {"2.02", "9.01"}, exhibit |-> "MAIN", title |-> "Form 8-K" ],
              [ codes |-> {"2.02", "9.01"}, exhibit |-> "99.1", title |-> "Press Release" ],
              [ codes |-> {"9.01"}, exhibit |-> "99.1", title |-> "Press Release" ],
              [ codes |-> {"8.01"}, exhibit |-> "4.1", title |-> "Press Release" ],
              [ codes |-> {"8.01"}, exhibit |-> "99.1", title |-> "Indenture" ] } }

RECURSIVE ReleaseTables(_)
ReleaseTables(n) ==
  IF n = 0 THEN { << >> }
  ELSE ReleaseTables(n - 1)
       \cup { Append(t, r) : t \in { u \in ReleaseTables(n - 1) : Len(u) = n - 1 },
                             r \in ReleaseRows }

FilingInputs ==
  { [ has_10k |-> k, has_10q |-> k, transcript |-> t ] :
      k \in BOOLEAN,
      t \in {TranscriptAbsent, TranscriptUndated} \cup { TranscriptDated(d) : d \in TranscriptDays } }

InitKnowledge ==
  /\ pc = "filings_fetched"
  /\ filings \in FilingInputs
  /\ company_releases \in ReleaseTables(MaxReleases)
  /\ eight_k_filings = Unset
  /\ filing_lookup = Unset
  /\ PipelineUnset
  /\ TimelineUnset /\ ParseUnset /\ LaterUnset

(* _fetch_filtered_8k_filings returns the rows of the query *)
FetchFiltered8kFilings ==
  /\ pc = "filings_fetched"
  /\ \E order \in QueryOrders(company_releases, filings) :
       eight_k_filings' = RowsFetched(company_releases, order)
  /\ pc' = "eight_k_fetched"
  /\ UNCHANGED <<filings, company_releases, filing_lookup, pipelineVars, timelineVars,
                 parseVars, laterVars>>

(* except Exception: return [] *)
FetchFiltered8kFails ==
  /\ pc = "filings_fetched"
  /\ eight_k_filings' = << >>
  /\ pc' = "eight_k_fetched"
  /\ UNCHANGED <<filings, company_releases, filing_lookup, pipelineVars, timelineVars,
                 parseVars, laterVars>>

(* _build_filter_user_content *)
BuildFilterUserContent ==
  /\ pc = "eight_k_fetched"
  /\ filing_lookup' = FilingLookup(filings, eight_k_filings)
  /\ pc' = "content_built"
  /\ UNCHANGED <<filings, company_releases, eight_k_filings, pipelineVars, timelineVars,
               parseVars, laterVars>>

NextKnowledge == FetchFiltered8kFilings \/ FetchFiltered8kFails \/ BuildFilterUserContent

SpecKnowledge == InitKnowledge /\ [][NextKnowledge]_vars

----------------------------------------------------------------------------
(* Phase 4: _parse_phase4_json_response *)

required_phase4_fields ==
  << "phase4_bottom_line", "phase4_upside_scenario", "phase4_downside_scenario" >>

word_limits ==
  [ phase4_bottom_line |-> [ max |-> 150, min |-> 0 ],
    phase4_upside_scenario |-> [ max |-> 160, min |-> 80 ],
    phase4_downside_scenario |-> [ max |-> 160, min |-> 80 ] ]

(* A JSON value of content or context: a string of so many words, or some  *)
(* other truthy value                                                       *)
TextValue(words) == [ kind |-> "str", words |-> words ]
OtherTextValue == [ kind |-> "other", words |-> 0 ]

(* An element of source_articles: an int, a bool, a float (val when         *)
(* integral, val + 0.5 otherwise), a string                                 *)
IntIndex(n) == [ kind |-> "int", val |-> n, integral |-> TRUE ]
BoolIndex(n) == [ kind |-> "bool", val |-> n, integral |-> TRUE ]
FloatIndex(n, integral) == [ kind |-> "float", val |-> n, integral |-> integral ]
StrIndex == [ kind |-> "str", val |-> 0, integral |-> FALSE ]

AbsentSection == [ kind |-> "absent" ]
NonDictSection == [ kind |-> "other" ]
DictSection(content, context, source_articles, date_range) ==
  [ kind |-> "dict", content |-> content, context |-> context,
    source_articles |-> source_articles, date_range |-> date_range ]

(* The placeholder of a missing field *)
PlaceholderSection ==
  DictSection(TextValue(3), TextValue(3), SourceList(<< >>), "")

(* str(content) if content else "", for a value that is not a string *)
AsString(text) == IF text.kind = "str" THEN text ELSE TextValue(1)

(* The words over or under the limits are logged and nothing else *)
WordCountWarning(field, content) ==
  \/ content.words > word_limits[field].max
  \/ word_limits[field].min > 0 /\ content.words < word_limits[field].min /\ content.words > 0

(* valid_indices *)
RECURSIVE ValidIndices(_)
ValidIndices(items) ==
  IF items = << >> THEN << >>
  ELSE LET idx == Head(items)
       IN (IF idx.kind \in {"int", "bool"} /\ idx.val >= 0 THEN << idx >>
           ELSE IF idx.kind = "float" /\ idx.val >= 0 /\ idx.integral THEN << IntIndex(idx.val) >>
           ELSE << >>) \o ValidIndices(Tail(items))

(* source_articles of the section after validation: reset when not a list,  *)
(* replaced by valid_indices when the lengths differ                        *)
CheckedSourceArticles(source_articles) ==
  IF source_articles.kind = "absent" THEN source_articles
  ELSE IF source_articles.kind # "list" THEN SourceList(<< >>)
  ELSE IF Len(ValidIndices(source_articles.items)) # Len(source_articles.items)
  THEN SourceList(ValidIndices(source_articles.items))
  ELSE source_articles

ValidatedSection(sec) ==
  DictSection(AsString(sec.content), AsString(sec.context),
              CheckedSourceArticles(sec.source_articles),
              IF sec.date_range = Absent THEN "" ELSE sec.date_range)

WithPlaceholders(json) ==
  [ f \in DOMAIN json |-> IF json[f].kind = "absent" THEN PlaceholderSection ELSE json[f] ]

(* What was extracted from the response text: nothing, or a JSON object *)
NothingParsed == [ kind |-> "none" ]
ParsedDict(json) == [ kind |-> "dict", json |-> json ]
ParseRaised == [ kind |-> "raised" ]

(* section.get on a section that is not a dict *)
ParseRaises(extracted) ==
  extracted.kind = "dict" /\ \E f \in DOMAIN extracted.json : extracted.json[f].kind = "other"

(* _parse_phase4_json_response: None when nothing was extracted *)
ParsePhase4(extracted) ==
  IF extracted.kind = "none" THEN NothingParsed
  ELSE ParsedDict([ f \in DOMAIN extracted.json |->
                      ValidatedSection(WithPlaceholders(extracted.json)[f]) ])

Phase4SourceValues ==
  { SourceAbsent, SourceOther, SourceList(<< >>),
    SourceList(<< IntIndex(0), IntIndex(2) >>),
    SourceList(<< IntIndex(1), IntIndex(-1) >>),
    SourceList(<< BoolIndex(1) >>),
    SourceList(<< FloatIndex(2, TRUE) >>),
    SourceList(<< FloatIndex(1, FALSE), IntIndex(3) >>),
    SourceList(<< FloatIndex(2, TRUE), StrIndex >>),
    SourceList(<< FloatIndex(-2, TRUE), IntIndex(4) >>) }

Phase4SectionValues ==
  { AbsentSection, NonDictSection } \cup
  { DictSection(t.content, t.context, sa, d) :
      t \in { [ content |-> TextValue(0), context |-> TextValue(5) ],
              [ content |-> TextValue(50), context |-> OtherTextValue ],
              [ content |-> TextValue(200), context |-> TextValue(5) ],
              [ content |-> OtherTextValue, context |-> TextValue(5) ] },
      sa \in Phase4SourceValues,
      d \in { Absent, "Nov 01" } }

ParsedInputs ==
  { NothingParsed } \cup
  { ParsedDict([ phase4_bottom_line |-> b, phase4_upside_scenario |-> u,
                 phase4_downside_scenario |-> d ]) :
      b \in Phase4SectionValues,
      u \in { AbsentSection, NonDictSection,
              DictSection(TextValue(50), TextValue(5), SourceList(<< IntIndex(1) >>), "Nov 01"),
              DictSection(TextValue(120), TextValue(5), SourceList(<< FloatIndex(2, TRUE) >>),
                          "Nov 01") },
      d \in { AbsentSection,
              DictSection(TextValue(300), TextValue(5), SourceList(<< IntIndex(0) >>), Absent) } }

InitParse ==
  /\ pc = "extracted"
  /\ parsed \in ParsedInputs
  /\ phase4_json = Unset
  /\ PipelineUnset
  /\ TimelineUnset /\ KnowledgeUnset /\ LaterUnset

ParsePhase4Response ==
  /\ pc = "extracted"
  /\ ~ParseRaises(parsed)
  /\ phase4_json' = ParsePhase4(parsed)
  /\ pc' = "parsed"
  /\ UNCHANGED <<parsed, pipelineVars, timelineVars, knowledgeVars, laterVars>>

ParsePhase4ResponseRaises ==
  /\ pc = "extracted"
  /\ ParseRaises(parsed)
  /\ phase4_json' = ParseRaised
  /\ pc' = "raised"
  /\ UNCHANGED <<parsed, pipelineVars, timelineVars, knowledgeVars, laterVars>>

NextParse == ParsePhase4Response \/ ParsePhase4ResponseRaises

SpecParse == InitParse /\ [][NextParse]_vars

----------------------------------------------------------------------------
(* Phase 4: the date_range of the paragraphs *)

MaxBullets == 2

(* The calendar.  A day is counted from the start of year 0; the years of  *)
(* the model have 365 days.                                                *)
DaysInMonth == << 31, 28, 31, 30, 31, 30, 31, 31, 30, 31, 30, 31 >>

RECURSIVE DaysBefore(_)
DaysBefore(m) == IF m = 1 THEN 0 ELSE DaysBefore(m - 1) + DaysInMonth[m - 1]

DateOf(y, m, d) == y * 365 + DaysBefore(m) + d
YearOf(n) == (n - 1) \div 365
OrdinalOf(n) == ((n - 1) % 365) + 1
MonthOf(n) ==
  CHOOSE m \in 1..12 : DaysBefore(m) < OrdinalOf(n) /\ OrdinalOf(n) <= DaysBefore(m) + DaysInMonth[m]
DayOfMonth(n) == OrdinalOf(n) - DaysBefore(MonthOf(n))

SetMax(S) == CHOOSE x \in S : \A y \in S : x >= y

(* strftime('%b %d'): month and day, no year *)
MonthDay(n) == [ month |-> MonthOf(n), day |-> DayOfMonth(n) ]
NoMonthDay == [ month |-> 0, day |-> 0 ]

(* The date strings: "Dec 11", "Dec 11-12", "Nov 28-Dec 04",               *)
(* "Dec 11, Dec 15", a text that holds no date, and ""                     *)
SingleDate(md) == [ kind |-> "single", from |-> md, to |-> md ]
DayRange(md, day) == [ kind |-> "day_range", from |-> md, to |-> [ month |-> 0, day |-> day ] ]
FullRange(md1, md2) == [ kind |-> "full_range", from |-> md1, to |-> md2 ]
CommaList(md1, md2) == [ kind |-> "list", from |-> md1, to |-> md2 ]
OtherText == [ kind |-> "other", from |-> NoMonthDay, to |-> NoMonthDay ]
EmptyString == [ kind |-> "empty", from |-> NoMonthDay, to |-> NoMonthDay ]

(* datetime.strptime(f"{part} {current_year}", "%b %d %Y"): the day, or no  *)
(* day on a ValueError                                                      *)
Strptime(md, current_year) ==
  IF md.month \in 1..12 /\ md.day \in 1..DaysInMonth[md.month]
  THEN << DateOf(current_year, md.month, md.day) >>
  ELSE << >>

(* _parse_date_string: every date is read in the current year *)
ParseDateString(date_string, current_year) ==
  CASE date_string.kind = "list" ->
         Strptime(date_string.from, current_year) \o Strptime(date_string.to, current_year)
    [] date_string.kind = "day_range" ->
         LET start == Strptime(date_string.from, current_year)
         IN start \o (IF start # << >>
                      THEN Strptime([ month |-> date_string.from.month, day |-> date_string.to.day ],
                                    current_year)
                      ELSE << >>)
    [] date_string.kind = "full_range" ->
         Strptime(date_string.from, current_year) \o Strptime(date_string.to, current_year)
    [] date_string.kind = "single" -> Strptime(date_string.from, current_year)
    [] OTHER -> << >>

RECURSIVE ParseAll(_, _)
ParseAll(date_strings, current_year) ==
  IF date_strings = << >> THEN << >>
  ELSE ParseDateString(Head(date_strings), current_year)
         \o ParseAll(Tail(date_strings), current_year)

(* The range string from day a to day b *)
FormatRange(a, b) ==
  IF a = b THEN SingleDate(MonthDay(a))
  ELSE IF MonthOf(a) = MonthOf(b) THEN DayRange(MonthDay(a), DayOfMonth(b))
  ELSE FullRange(MonthDay(a), MonthDay(b))

(* _consolidate_dates *)
ConsolidateDates(date_strings, current_year) ==
  LET all_dates == ParseAll(date_strings, current_year)
      days == { all_dates[i] : i \in DOMAIN all_dates }
  IN IF all_dates = << >> THEN EmptyString ELSE FormatRange(SetMin(days), SetMax(days))

(* compute_report_period_date_range *)
ReportPeriod(rtype, now) ==
  IF rtype = "weekly"
  THEN LET end_date == now - 1
           start_date == end_date - 6
       IN IF MonthOf(start_date) = MonthOf(end_date)
          THEN DayRange(MonthDay(start_date), DayOfMonth(end_date))
          ELSE FullRange(MonthDay(start_date), MonthDay(end_date))
  ELSE SingleDate(MonthDay(now))

(* A bullet: days are the days its date_range stands for *)
DatedBullet(filter_status, deduplication, date_range, days) ==
  [ filter_status |-> filter_status, deduplication |-> deduplication,
    date_range |-> date_range, days |-> days ]

(* dedup.get on a deduplication that is null *)
CollectRaises(bullets) ==
  \E i \in DOMAIN bullets :
    bullets[i].filter_status # "filtered_out" /\ bullets[i].deduplication = "null"

IsCollected(bullet) ==
  /\ bullet.filter_status # "filtered_out"
  /\ bullet.deduplication # "duplicate"
  /\ bullet.date_range.kind # "empty"

(* A collection that skips no bullet *)
CollectDatesOfEveryBullet(bullets) ==
  [ i \in DOMAIN bullets |-> bullets[i].date_range ]

(* _collect_all_bullet_dates *)
CollectAllBulletDates(bullets) ==
  LET kept == SelectSeq(bullets, IsCollected)
  IN [ i \in DOMAIN kept |-> kept[i].date_range ]

ParagraphKeys == { "phase4_bottom_line", "phase4_upside_scenario", "phase4_downside_scenario" }

ParagraphSection(date_range) == [ kind |-> "dict", date_range |-> date_range ]
MissingParagraph == [ kind |-> "absent", date_range |-> EmptyString ]

(* post_process_phase4_dates *)
PostProcessPhase4Dates(result, bullets, rtype, now) ==
  LET all_bullet_dates == CollectAllBulletDates(bullets)
      computed == IF all_bullet_dates # << >>
                  THEN ConsolidateDates(all_bullet_dates, YearOf(now))
                  ELSE EmptyString
      computed_date_range == IF computed = EmptyString THEN ReportPeriod(rtype, now)
                             ELSE computed
  IN [ k \in DOMAIN result |-> ParagraphSection(computed_date_range) ]

Todays == { DateOf(1, 1, 3), DateOf(0, 12, 15), DateOf(0, 12, 2) }

BulletsOn(now) ==
  { DatedBullet("included", "unique", SingleDate(MonthDay(now - 1)), { now - 1 }),
    DatedBullet("included", "unique", SingleDate(MonthDay(now - 4)), { now - 4 }),
    DatedBullet("included", "unique", FormatRange(now - 4, now - 1), { now - 4, now - 1 }),
    DatedBullet("included", "unique", CommaList(MonthDay(now - 4), MonthDay(now - 2)),
                { now - 4, now - 2 }),
    DatedBullet("included", "unique", OtherText, { }),
    DatedBullet("included", "unique", EmptyString, { }),
    DatedBullet("filtered_out", "null", SingleDate(MonthDay(now - 7)), { now - 7 }),
    DatedBullet("included", "duplicate", SingleDate(MonthDay(now - 6)), { now - 6 }),
    DatedBullet("included", "null", SingleDate(MonthDay(now - 1)), { now - 1 }) }

RECURSIVE BulletLists(_, _)
BulletLists(now, n) ==
  IF n = 0 THEN { << >> }
  ELSE BulletLists(now, n - 1)
       \cup { Append(l, b) : l \in { m \in BulletLists(now, n - 1) : Len(m) = n - 1 },
                             b \in BulletsOn(now) }

(* The paragraphs as generated, with the date_range the model wrote *)
Phase4Results ==
  { [ k \in ParagraphKeys |-> ParagraphSection(FullRange([ month |-> 1, day |-> 1 ],
                                                         [ month |-> 2, day |-> 1 ])) ],
    [ k \in ParagraphKeys |-> IF k = "phase4_upside_scenario" THEN MissingParagraph
                              ELSE ParagraphSection(EmptyString) ] }

InitDates ==
  /\ pc = "generated"
  /\ now_eastern \in Todays
  /\ report_type \in { "daily", "weekly" }
  /\ dated_bullets \in BulletLists(now_eastern, MaxBullets)
  /\ phase4_result \in Phase4Results
  /\ consolidated = Unset
  /\ PipelineUnset
  /\ TimelineUnset /\ KnowledgeUnset /\ ParseUnset /\ FrameUnset
  /\ deduplicated_twice = Unset

otherThanDates ==
  <<pipelineVars, timelineVars, knowledgeVars, parseVars, frameVars, deduplicated_twice>>

(* _consolidate_dates on the dates of the bullets *)
ConsolidateBulletDates ==
  /\ pc = "generated"
  /\ ~CollectRaises(dated_bullets)
  /\ consolidated' = ConsolidateDates(CollectAllBulletDates(dated_bullets), YearOf(now_eastern))
  /\ pc' = "consolidated"
  /\ UNCHANGED <<now_eastern, report_type, dated_bullets, phase4_result, otherThanDates>>

PostProcessDates ==
  /\ pc \in {"generated", "consolidated"}
  /\ ~CollectRaises(dated_bullets)
  /\ phase4_result' = PostProcessPhase4Dates(phase4_result, dated_bullets, report_type,
                                             now_eastern)
  /\ pc' = "post_processed"
  /\ UNCHANGED <<now_eastern, report_type, dated_bullets, consolidated, otherThanDates>>

PostProcessDatesRaises ==
  /\ pc = "generated"
  /\ CollectRaises(dated_bullets)
  /\ pc' = "raised"
  /\ UNCHANGED <<now_eastern, report_type, dated_bullets, phase4_result, consolidated,
                 otherThanDates>>

NextDates == ConsolidateBulletDates \/ PostProcessDates \/ PostProcessDatesRaises

SpecDates == InitDates /\ [][NextDates]_vars

----------------------------------------------------------------------------
(* The merge layer in memory.  A JSON is a root dict whose "sections" key  *)
(* holds the sections dict, whose lists hold bullet dicts, whose           *)
(* "deduplication" key holds a dict.  Every dict is an object of the heap, *)
(* a sequence addressed by position; an assignment writes the object at    *)
(* an address, so that every holder of the address sees it.  A list is     *)
(* kept with the dict that holds it: the four functions never change a     *)
(* list, they store new ones (sorted(...), consolidated, sorted(list(...))). *)

Ref(addr) == [ kind |-> "ref", addr |-> addr ]

IsRef(v) == v.kind = "ref"

(* json.loads of one bullet: its deduplication dict, then the bullet *)
StoreBullet(h, bullet) ==
  IF bullet.deduplication.kind = "dict"
  THEN h \o << bullet.deduplication,
               [ kind |-> "bullet",
                 fields |-> [bullet EXCEPT !.deduplication = Ref(Len(h) + 1)] ] >>
  ELSE h \o << [ kind |-> "bullet", fields |-> bullet ] >>

RECURSIVE StoreBullets(_, _, _)
StoreBullets(h, bullets, n) ==
  IF n = 0 THEN [ store |-> h, addrs |-> << >> ]
  ELSE LET prev == StoreBullets(h, bullets, n - 1)
           next == StoreBullet(prev.store, bullets[n])
       IN [ store |-> next, addrs |-> Append(prev.addrs, Len(next)) ]

RECURSIVE StoreSections(_, _, _)
StoreSections(h, json, k) ==
  IF k = 0 THEN [ store |-> h, addrs |-> << >> ]
  ELSE LET prev == StoreSections(h, json, k - 1)
           next == StoreBullets(prev.store, json[bullet_section_names[k]],
                                Len(json[bullet_section_names[k]]))
       IN [ store |-> next.store, addrs |-> Append(prev.addrs, next.addrs) ]

SectionPosition(s) ==
  CHOOSE k \in DOMAIN bullet_section_names : bullet_section_names[k] = s

(* The heap with the objects of json added; the root is the last one *)
StoreJson(h, json) ==
  LET stored == StoreSections(h, json, Len(bullet_section_names))
      with_sections ==
        Append(stored.store,
               [ kind |-> "sections",
                 lists |-> [ s \in SectionSet |-> stored.addrs[SectionPosition(s)] ] ])
  IN Append(with_sections, [ kind |-> "root", sections |-> Len(with_sections) ])

LoadBullet(h, addr) ==
  IF IsRef(h[addr].fields.deduplication)
  THEN [h[addr].fields EXCEPT !.deduplication = h[h[addr].fields.deduplication.addr]]
  ELSE h[addr].fields

(* The value of the JSON at root *)
LoadJson(h, root) ==
  LET lists == h[h[root].sections].lists
  IN [ s \in SectionSet |-> [ i \in DOMAIN lists[s] |-> LoadBullet(h, lists[s][i]) ] ]

BulletAddrs(h, root, names) == UNION { Range(h[h[root].sections].lists[s]) : s \in names }

DedupAddrs(h, root) ==
  { h[b].fields.deduplication.addr :
      b \in { x \in BulletAddrs(h, root, SectionSet) : IsRef(h[x].fields.deduplication) } }

(* Every object the JSON at root consists of *)
Reach(h, root) ==
  {root, h[root].sections} \cup BulletAddrs(h, root, SectionSet) \cup DedupAddrs(h, root)

(* copy.copy: a new root dict that holds the sections dict of the old one *)
ShallowCopy(h, root) == Append(h, h[root])

(* copy.deepcopy: a new object for every object of the JSON *)
DeepCopy(h, root) == StoreJson(h, LoadJson(h, root))

SectionOfAddr(h, root, addr) ==
  CHOOSE s \in SectionSet : addr \in Range(h[h[root].sections].lists[s])

(* A filter that leaves key_variables out, as the later phases do *)
apply_filter_to_six_sections(h, root, bullets) ==
  LET copied == DeepCopy(h, root)
      result == Len(copied)
      marked == BulletAddrs(copied, result, DedupSectionSet)
  IN [ store |-> [ a \in DOMAIN copied |->
                     IF a \in marked
                     THEN [copied[a] EXCEPT !.fields = MarkBullet(@, bullets)]
                     ELSE copied[a] ],
       root |-> result ]

apply_filter_to_phase1(h, root, bullets) ==
  LET copied == DeepCopy(h, root)
      result == Len(copied)
      marked == BulletAddrs(copied, result, SectionSet)
  IN [ store |-> [ a \in DOMAIN copied |->
                     IF a \in marked
                     THEN [copied[a] EXCEPT !.fields = MarkBullet(@, bullets)]
                     ELSE copied[a] ],
       root |-> result ]

(* sorted(bullets, key=get_sort_key) on the bullets at addrs *)
SortedAddrs(h, addrs) ==
  LET keyed == [ i \in DOMAIN addrs |-> [ addr |-> addrs[i], impact |-> h[addrs[i]].fields.impact ] ]
      sorted == sort_bullets_by_impact(keyed)
  IN [ i \in DOMAIN sorted |-> sorted[i].addr ]

merge_phase1_phase2(h, root, enr) ==
  LET copied == DeepCopy(h, root)
      result == Len(copied)
      enriched == IF DOMAIN enr = {} THEN {} ELSE BulletAddrs(copied, result, SectionSet)
      written == [ a \in DOMAIN copied |->
                     IF a \in enriched
                     THEN [copied[a] EXCEPT
                             !.fields = EnrichBullet(@, SectionOfAddr(copied, result, a), enr)]
                     ELSE copied[a] ]
      sections == copied[result].sections
  IN [ store |-> [written EXCEPT ![sections].lists =
                    [ s \in SectionSet |->
                        IF s \in enriched_sections /\ Len(@[s]) > 0
                        THEN SortedAddrs(written, @[s]) ELSE @[s] ]],
       root |-> result ]

(* phase3_map.get(bullet_id): the address of the last Phase 3 bullet of    *)
(* the section with the id, 0 when there is none                           *)
Phase3MapAddr(h, phase3_addrs, id) ==
  LET with_id == { i \in DOMAIN phase3_addrs : h[phase3_addrs[i]].fields.bullet_id = id }
  IN IF with_id = {} \/ ~Truthy(id) THEN 0
     ELSE phase3_addrs[CHOOSE i \in with_id : \A j \in with_id : j <= i]

merge_phase3_with_phase2(h, root, phase3_root) ==
  LET copied == DeepCopy(h, root)
      result == Len(copied)
      tagged == BulletAddrs(copied, result, DedupSectionSet)
      phase3_bullet(a) ==
        Phase3MapAddr(copied,
                      copied[copied[phase3_root].sections].lists[SectionOfAddr(copied, result, a)],
                      copied[a].fields.bullet_id)
      (* bullet['deduplication'] = phase3_bullet['deduplication'] *)
      takes(a) ==
        /\ phase3_bullet(a) # 0
        /\ copied[phase3_bullet(a)].fields.deduplication # DedupAbsent
      (* the bullets that get a new {'status': 'unique'}, in address order *)
      defaulted == SortedSeq({ a \in tagged : ~takes(a) })
      new_dict(a) == Len(copied) + (CHOOSE k \in DOMAIN defaulted : defaulted[k] = a)
  IN [ store |-> [ a \in DOMAIN copied |->
                     IF a \notin tagged THEN copied[a]
                     ELSE IF takes(a)
                     THEN [copied[a] EXCEPT !.fields.deduplication =
                             copied[phase3_bullet(a)].fields.deduplication]
                     ELSE [copied[a] EXCEPT !.fields.deduplication = Ref(new_dict(a))] ]
                   \o [ k \in DOMAIN defaulted |-> DedupUnique ],
       root |-> result ]

apply_deduplication(h, root) ==
  LET copied == DeepCopy(h, root)
      result == Len(copied)
      json == LoadJson(copied, result)
      order == VisitOrder(json, Len(dedup_sections))
      sources == SourcesAfter(json, order, Len(order))
      visited == BulletAddrs(copied, result, DedupSectionSet)
      written == [ a \in DOMAIN copied |->
                     IF a \in visited
                     THEN [copied[a] EXCEPT
                             !.fields.source_articles = sources[copied[a].fields.bullet_id]]
                     ELSE copied[a] ]
      sections == copied[result].sections
  IN [ store |-> [written EXCEPT ![sections].lists =
                    [ s \in SectionSet |->
                        IF s \in DedupSectionSet
                        THEN SelectSeq(@[s], LAMBDA a : ~IsRemoved(LoadBullet(copied, a)))
                        ELSE @[s] ]],
       root |-> result ]

(* The four functions as the pipeline calls them, each on what the one     *)
(* before returned; the Phase 3 response is parsed before its merge.       *)
InitFrames ==
  /\ pc = "phase1"
  /\ \E json \in FilterPhase1Jsons :
       /\ heap = StoreJson(<< >>, json)
       /\ result_root = Len(heap)
  /\ heap_before = heap
  /\ argument_roots = << >>
  /\ PipelineUnset
  /\ TimelineUnset /\ KnowledgeUnset /\ ParseUnset /\ DateUnset
  /\ deduplicated_twice = Unset

otherThanFrames ==
  <<pipelineVars, timelineVars, knowledgeVars, parseVars, dateVars, deduplicated_twice>>

Called(arguments, call) ==
  /\ heap_before' = heap
  /\ argument_roots' = arguments
  /\ heap' = call.store
  /\ result_root' = call.root
  /\ UNCHANGED otherThanFrames

CallApplyFilter ==
  /\ pc = "phase1"
  /\ \E v \in Verdicts :
       Called(<<result_root>>, apply_filter_to_phase1(heap, result_root, v))
  /\ pc' = "filtered"

CallMergePhase2 ==
  /\ pc = "filtered"
  /\ \E e \in PlainEnrichments :
       Called(<<result_root>>, merge_phase1_phase2(heap, result_root, e))
  /\ pc' = "enriched"

CallMergePhase3 ==
  /\ pc = "enriched"
  /\ \E r \in Phase3Responses(LoadJson(heap, result_root)) :
       LET parsed_heap == StoreJson(heap, r)
           call == merge_phase3_with_phase2(parsed_heap, result_root, Len(parsed_heap))
       IN /\ heap_before' = parsed_heap
          /\ argument_roots' = <<result_root, Len(parsed_heap)>>
          /\ heap' = call.store
          /\ result_root' = call.root
          /\ UNCHANGED otherThanFrames
  /\ pc' = "tagged"

CallApplyDeduplication ==
  /\ pc = "tagged"
  /\ ~DeduplicationRaises(LoadJson(heap, result_root))
  /\ Called(<<result_root>>, apply_deduplication(heap, result_root))
  /\ pc' = "deduplicated"

(* copy.deepcopy has returned, bullet.get('deduplication', ...) is None;   *)
(* nothing is returned (address 0)                                         *)
CallApplyDeduplicationRaises ==
  /\ pc = "tagged"
  /\ DeduplicationRaises(LoadJson(heap, result_root))
  /\ heap_before' = heap
  /\ argument_roots' = <<result_root>>
  /\ heap' = DeepCopy(heap, result_root)
  /\ result_root' = 0
  /\ UNCHANGED otherThanFrames
  /\ pc' = "raised"

NextFrames ==
  \/ CallApplyFilter
  \/ CallMergePhase2
  \/ CallMergePhase3
  \/ CallApplyDeduplication
  \/ CallApplyDeduplicationRaises

SpecFrames == InitFrames /\ [][NextFrames]_vars

----------------------------------------------------------------------------
(* C1 *)

SameIdentity(before, after) ==
  \A s \in SectionSet :
    /\ Len(after[s]) = Len(before[s])
    /\ \A i \in DOMAIN before[s] : \E j \in DOMAIN after[s] :
         /\ after[s][j].bullet_id = before[s][i].bullet_id
         /\ after[s][j].topic_label = before[s][i].topic_label
         /\ after[s][j].content = before[s][i].content

(* C1: whatever merge-layer operations have been applied, every section of *)
(* the merged JSON holds exactly the bullet_ids it held in the Phase 1     *)
(* JSON, each with its topic_label and content unchanged.                  *)
C1_IdentityPreserved == SameIdentity(phase1_json, merged)

(* All three operations have acted: a bullet is marked, enriched and       *)
(* tagged, and the impact sort has reordered its section.                  *)
C1_Witness ==
  /\ pc = "merged"
  /\ Len(merged["risk_factors"]) = 2
  /\ IdSeq(merged["risk_factors"]) # IdSeq(phase1_json["risk_factors"])
  /\ merged["risk_factors"][1].filter_status = "filtered_out"
  /\ merged["risk_factors"][1].impact = "high impact"
  /\ merged["risk_factors"][1].deduplication.kind = "dict"
  /\ merged["risk_factors"][2].deduplication = DedupUnique

----------------------------------------------------------------------------
(* C5 *)

(* The action the filter result holds for a bullet id, with its letter     *)
(* case folded: that of the last entry with the id, "" when there is none. *)
VerdictFor(result, id) ==
  LET es == { j \in DOMAIN result : result[j].bullet_id = id }
  IN IF es = {} \/ id = "" \/ id = Absent THEN ""
     ELSE LET e == result[CHOOSE j \in es : \A m \in es : m <= j]
          IN IF e.action \in {"REMOVE", "remove"} THEN "REMOVE" ELSE "OTHER"

(* C5: after apply_filter_to_phase1 every section holds the bullets of the *)
(* input in the same order, each unchanged but for filter_status and       *)
(* filter_reason: filtered_out/stale for a REMOVE verdict, included/None   *)
(* for any other verdict or none.                                          *)
C5_SoftFilter ==
  pc = "applied" =>
    \A s \in SectionSet :
      /\ Len(merged[s]) = Len(phase1_json[s])
      /\ \A i \in DOMAIN phase1_json[s] :
           merged[s][i] =
             IF VerdictFor(filter_result, phase1_json[s][i].bullet_id) = "REMOVE"
             THEN [phase1_json[s][i] EXCEPT !.filter_status = "filtered_out",
                                            !.filter_reason = "stale"]
             ELSE [phase1_json[s][i] EXCEPT !.filter_status = "included",
                                            !.filter_reason = None]

(* Two bullets of one section, the first one stale, both still there *)
C5_Witness ==
  /\ pc = "applied"
  /\ Len(merged["risk_factors"]) = 2
  /\ merged["risk_factors"][1].filter_status = "filtered_out"
  /\ merged["risk_factors"][1].filter_reason = "stale"
  /\ merged["risk_factors"][2].filter_status = "included"
  /\ merged["risk_factors"][2].filter_reason = None
  /\ Len(filter_result) = 2

----------------------------------------------------------------------------
(* C2 *)

(* The number of sentences tagged REMOVE, in any letter case, counted      *)
(* from the item itself.                                                   *)
TaggedRemove(sentences) ==
  Cardinality({ i \in DOMAIN sentences : sentences[i] \in {"REMOVE", "remove"} })

ThresholdClass(k, n) ==
  IF k = 0 THEN "all_new"
  ELSE IF k = n THEN "all_known"
  ELSE IF 3 * k >= 2 * n THEN "mostly_known"
  ELSE "mostly_new"

----------------------------------------------------------------------------
(* C3, C4 *)

ExemptBulletSections == { "wall_street_sentiment", "upcoming_catalysts", "key_variables" }

EntriesOf(response, id) == { j \in DOMAIN response : response[j].bullet_id = id }

LastEntryOf(response, id) ==
  CHOOSE j \in EntriesOf(response, id) : \A m \in EntriesOf(response, id) : m <= j

(* The section label of a response entry names an exempt section *)
LabelledExempt(entry) ==
  entry.section \in EXEMPT_SECTIONS \cup {"Wall_Street_Sentiment"}

(* C3 as stated: every bullet that sits in an exempt section of the Phase  *)
(* 1 JSON ends with action KEEP in the filter result and filter_status     *)
(* 'included', whatever the response carries for its bullet_id.            *)
C3_ExemptImmune ==
  pc = "applied" =>
    \A s \in ExemptBulletSections : \A i \in DOMAIN merged[s] :
      /\ merged[s][i].filter_status = "included"
      /\ \A j \in EntriesOf(filter_result, merged[s][i].bullet_id) :
           filter_result[j].action = "KEEP"

----------------------------------------------------------------------------
(* C6 *)

(* C6 as stated: after merge_phase3_with_phase2 every bullet of every      *)
(* section has a deduplication field that is not null, and a bullet whose  *)
(* id Phase 3 did not return has exactly {status: unique}.                 *)
C6_Original ==
  pc = "tagged" =>
    \A s \in SectionSet : \A i \in DOMAIN merged[s] :
      /\ merged[s][i].deduplication.kind = "dict"
      /\ (\A t \in SectionSet : ~InPhase3Map(phase3_json[t], merged[s][i].bullet_id))
           => merged[s][i].deduplication = DedupUnique

(* C6 amended: every bullet of the six dedup sections has a deduplication  *)
(* field: the value Phase 3 gave the bullet of that id in that section     *)
(* when it gave one (null if Phase 3 said null), and exactly {status:      *)
(* unique} when Phase 3 did not return the id in that section or returned  *)
(* it without the field.  The bullets of key_variables are left as they    *)
(* were, without the field.                                                *)
C6_DedupTotal ==
  pc = "tagged" =>
    /\ \A s \in DedupSectionSet :
         /\ Len(merged[s]) = Len(phase2_json[s])
         /\ \A i \in DOMAIN merged[s] :
              LET b == merged[s][i]
                  es == { j \in DOMAIN phase3_json[s] : phase3_json[s][j].bullet_id = b.bullet_id }
              IN /\ b.deduplication # DedupAbsent
                 /\ IF es = {} THEN b.deduplication = DedupUnique
                    ELSE LET given == phase3_json[s][CHOOSE j \in es : \A m \in es : m <= j].deduplication
                         IN b.deduplication = IF given = DedupAbsent THEN DedupUnique ELSE given
    /\ merged["key_variables"] = phase2_json["key_variables"]

(* One bullet Phase 3 left out, one it returned without the field, both in *)
(* dedup sections                                                          *)
C6_Witness ==
  /\ pc = "tagged"
  /\ Len(merged["risk_factors"]) = 2
  /\ Len(phase3_json["risk_factors"]) = 1
  /\ phase3_json["risk_factors"][1].deduplication = DedupAbsent
  /\ \A t \in SectionSet \ {"risk_factors"} : Len(phase3_json[t]) = 0
  /\ merged["risk_factors"][1].deduplication = DedupUnique
  /\ merged["risk_factors"][2].deduplication = DedupUnique

----------------------------------------------------------------------------
(* C10 *)

(* C10 as stated: after merge_phase1_phase2 every bullet of                *)
(* wall_street_sentiment has context "", whether or not the payload has an *)
(* entry for it.                                                           *)
C10_Original ==
  pc = "enriched" =>
    \A i \in DOMAIN merged["wall_street_sentiment"] :
      merged["wall_street_sentiment"][i].context = ""

(* C10 amended: after merge_phase1_phase2 every bullet of                  *)
(* wall_street_sentiment that has an entry in the payload has context "",  *)
(* whatever context the entry supplied; a bullet without an entry keeps    *)
(* the context of the input, which has none.                               *)
C10_ContextStripped ==
  pc = "enriched" =>
    \A i \in DOMAIN merged["wall_street_sentiment"] :
      LET b == merged["wall_street_sentiment"][i]
      IN IF b.bullet_id \in DOMAIN phase2_result
         THEN b.context = ""
         ELSE b.context = BulletOfId(phase1_json, b.bullet_id).context

C10_Witness ==
  /\ pc = "enriched"
  /\ Len(merged["wall_street_sentiment"]) > 0
  /\ LET b == merged["wall_street_sentiment"][1]
     IN /\ b.bullet_id \in DOMAIN phase2_result
        /\ phase2_result[b.bullet_id].context = "filing context"
        /\ b.context = ""
        /\ b.impact = "high impact"

----------------------------------------------------------------------------
(* C7, C8 *)

StatusOf(bullet) ==
  IF bullet.deduplication.kind = "dict" /\ bullet.deduplication.status # Absent
  THEN bullet.deduplication.status
  ELSE "unique"

AbsorbsOf(bullet) ==
  IF bullet.deduplication.kind = "dict" /\ bullet.deduplication.absorbs # AbsentIds
  THEN bullet.deduplication.absorbs
  ELSE << >>

InputSources(json, id) ==
  IF id \in IndexedIds(json) THEN Range(GetInts(BulletOfId(json, id).source_articles)) ELSE {}

(* Own input source_articles and those of every bullet absorbed *)
InputUnion(json, bullet) ==
  InputSources(json, bullet.bullet_id)
    \cup UNION { InputSources(json, id) : id \in Range(AbsorbsOf(bullet)) }

IsAscending(l) == \A i \in 1..(Len(l) - 1) : l[i] < l[i + 1]

(* An absorbed bullet that is itself a primary with bullets to absorb *)
AbsorbsAnAbsorber(json, bullet) ==
  \E id \in Range(AbsorbsOf(bullet)) \cap IndexedIds(json) :
    /\ id # bullet.bullet_id
    /\ StatusOf(BulletOfId(json, id)) = "primary"
    /\ Len(AbsorbsOf(BulletOfId(json, id))) > 0

(* C7 as stated: the source_articles of every primary bullet is the        *)
(* ascending duplicate-free union of its own input source_articles and     *)
(* the input source_articles of every bullet it absorbs.                   *)
C7_Original ==
  pc = "deduplicated" =>
    \A s \in DedupSectionSet : \A i \in DOMAIN merged[s] :
      StatusOf(merged[s][i]) = "primary" =>
        merged[s][i].source_articles =
          SortedSeq(InputUnion(phase3_merged_json, merged[s][i]))

(* C7 amended: a primary bullet with a non-empty absorbs list gets an      *)
(* ascending duplicate-free source_articles that contains its own input    *)
(* source_articles and those of every bullet it absorbs, in whichever of   *)
(* the six sections; it is exactly that union unless an absorbed bullet is *)
(* itself a primary with a non-empty absorbs list, whose consolidated      *)
(* source_articles may then come along.  A primary with an empty or        *)
(* missing absorbs list keeps its source_articles as they were.            *)
C7_SourceUnion ==
  pc = "deduplicated" =>
    \A s \in DedupSectionSet : \A i \in DOMAIN merged[s] :
      LET b == merged[s][i]
          before == BulletOfId(phase3_merged_json, b.bullet_id)
          all == UNION { InputSources(phase3_merged_json, id) :
                           id \in IndexedIds(phase3_merged_json) }
      IN StatusOf(b) = "primary" =>
           IF Len(AbsorbsOf(b)) = 0
           THEN b.source_articles = before.source_articles
           ELSE /\ IsAscending(b.source_articles)
                /\ InputUnion(phase3_merged_json, before) \subseteq Range(b.source_articles)
                /\ Range(b.source_articles) \subseteq all
                /\ ~AbsorbsAnAbsorber(phase3_merged_json, before)
                     => Range(b.source_articles) = InputUnion(phase3_merged_json, before)

(* [1,3] in major_developments absorbing [3,5] of another section *)
C7_Witness ==
  /\ pc = "deduplicated"
  /\ Len(phase3_merged_json["major_developments"]) = 1
  /\ phase3_merged_json["major_developments"][1].source_articles = <<1, 3>>
  /\ phase3_merged_json["major_developments"][1].deduplication
       = DedupDict("primary", <<"b2">>, Absent)
  /\ Len(phase3_merged_json["wall_street_sentiment"]) = 1
  /\ phase3_merged_json["wall_street_sentiment"][1].source_articles = <<3, 5>>
  /\ merged["major_developments"][1].source_articles = <<1, 3, 5>>

----------------------------------------------------------------------------
(* C9 *)

MappingIds(enr) ==
  IF enr.kind = "dict"
  THEN { id \in DOMAIN enr.entries : enr.entries[id].kind = "dict" }
  ELSE {}

RequiredFieldsOf(json, id) ==
  {"context", "impact", "sentiment", "reason", "relevance"}
    \cup IF \E i \in DOMAIN json["competitive_industry_dynamics"] :
              json["competitive_industry_dynamics"][i].bullet_id = id
         THEN {"entity"} ELSE {}

----------------------------------------------------------------------------
(* C11 *)

ImpactRank(impact) ==
  IF impact = "high impact" THEN 0
  ELSE IF impact = "medium impact" THEN 1
  ELSE IF impact = "low impact" THEN 2
  ELSE 999

(* The position of the bullet with the id in a list of bullets *)
PositionOf(bullets, id) == CHOOSE i \in DOMAIN bullets : bullets[i].bullet_id = id

----------------------------------------------------------------------------
(* C12 *)

(* Not filtered out and not a duplicate, both read whatever the letter     *)
(* case, a bullet without deduplication or status counting as unique       *)
PassedAllFilters(bullet) ==
  /\ bullet.filter_status # "filtered_out"
  /\ ~(bullet.deduplication.kind = "dict"
         /\ bullet.deduplication.status \in {"duplicate", "Duplicate"})

(* C12: the result of _filter_surviving_bullets has the six BULLET_SECTIONS *)
(* and no key_variables; each section holds, in their order, exactly the   *)
(* bullets of the input section that are not filtered out and whose        *)
(* deduplication status is not duplicate.                                  *)
C12_Survivors ==
  pc = "survived" =>
    /\ DOMAIN surviving = SectionSet \ {"key_variables"}
    /\ \A s \in DOMAIN surviving :
         surviving[s] = SelectSeq(phase3_merged_json[s], PassedAllFilters)

(* A section of three: b1 filtered out, b2 a duplicate, b3 survives; or b2 *)
(* in key_variables and out of the result                                  *)
C12_Witness ==
  /\ pc = "survived"
  /\ IdSeq(phase3_merged_json["major_developments"]) = <<"b1", "b2", "b3">>
  /\ phase3_merged_json["major_developments"][1].filter_status = "filtered_out"
  /\ phase3_merged_json["major_developments"][2].deduplication.kind = "dict"
  /\ phase3_merged_json["major_developments"][2].deduplication.status = "duplicate"
  /\ phase3_merged_json["major_developments"][2].filter_status = "included"
  /\ IdSeq(surviving["major_developments"]) = <<"b3">>

----------------------------------------------------------------------------
(* C13 *)

Phase4Keys == { "phase4_bottom_line", "phase4_upside_scenario", "phase4_downside_scenario" }

NoSurvivors ==
  /\ phase = "phase4"
  /\ ~SurvivorFilterRaises(phase3_merged_json)
  /\ total_surviving(phase3_merged_json) = 0

(* C13: when no bullet of the Phase 3 JSON survives, Phase 4 never invokes *)
(* a provider nor sends a request, and what it returns is the fixed triple *)
(* of placeholder paragraphs, each with source_articles = [].              *)
C13_NoSurvivorsNoProvider ==
  NoSurvivors =>
    /\ provider_calls = << >>
    /\ http_requests = 0
    /\ pc \in {"start", "returned"}
    /\ pc = "returned" =>
         /\ phase_result.kind = "returned"
         /\ phase_result.value = ParagraphsValue(NoSurvivorsParagraphs)
         /\ DOMAIN phase_result.value.paragraphs = Phase4Keys
         /\ \A k \in Phase4Keys : phase_result.value.paragraphs[k].source_articles = << >>

C13_Witness ==
  /\ NoSurvivors
  /\ pc = "returned"
  /\ anthropic_api_key /\ gemini_api_key
  /\ Len(phase3_merged_json["major_developments"]) > 0
  /\ Len(phase3_merged_json["financial_performance"]) > 0

----------------------------------------------------------------------------
(* C14 *)

(* C14: no phase function raises to its caller: whatever the providers'    *)
(* requests come back with, a phase function that has invoked a provider   *)
(* ends by returning a value.                                              *)
C14_NeverRaises ==
  provider_calls # << >> => pc # "raised" /\ phase_result.kind # "raised"

----------------------------------------------------------------------------
(* C15 *)

TwoProviderPhases == { "phase1", "phase2", "phase3", "phase4" }

PrimaryOf(ph, primary) ==
  IF ph \in {"phase3", "phase4"} /\ primary # "gemini" THEN "claude" ELSE "gemini"

SecondaryOf(ph, primary) ==
  IF PrimaryOf(ph, primary) = "claude" THEN "gemini" ELSE "claude"

HasKey(p) == IF p = "claude" THEN anthropic_api_key ELSE gemini_api_key

PrimaryAttempts(ph, primary) ==
  IF ph \in {"phase3", "phase4"} /\ primary # "gemini" THEN 2 ELSE 1

CallsOf(p) == { i \in DOMAIN provider_calls : provider_calls[i] = p }

(* The secondary is in the calls only with the primary's key missing or    *)
(* with all the primary's attempts before it.                              *)
SecondaryAfterPrimary ==
  LET prim == PrimaryOf(phase, primary_model)
      sec == SecondaryOf(phase, primary_model)
  IN CallsOf(sec) # {} =>
       \/ ~HasKey(prim) /\ CallsOf(prim) = {}
       \/ /\ Cardinality(CallsOf(prim)) = PrimaryAttempts(phase, primary_model)
          /\ \A i \in CallsOf(prim) : \A j \in CallsOf(sec) : i < j

(* A further provider call follows a request that brought no usable result *)
CallAfterFailure ==
  (provider_calls' # provider_calls /\ provider_calls # << >>) =>
    /\ last_response' # "200"
    /\ last_response' # last_response \/ http_requests' > http_requests

(* A usable result ends the phase, and is what it returns *)
SuccessIsReturned ==
  (http_requests' > http_requests /\ last_response' = "200") =>
    /\ pc' = "returned"
    /\ provider_calls' = provider_calls
    /\ phase_result' = Returned(phase, JsonValue, ModelOf(phase, provider))

NothingAfterReturn == pc = "returned" => UNCHANGED vars

FallbackStep ==
  phase \in TwoProviderPhases =>
    CallAfterFailure /\ SuccessIsReturned /\ NothingAfterReturn

(* C15: in Phases 1 to 4 the secondary provider is invoked only after      *)
(* every attempt of the primary failed or when the primary's key is        *)
(* missing, and the first usable result ends the phase: no provider is     *)
(* invoked after it and it is what the phase returns.                      *)
C15_SecondaryOnlyAfterPrimaryFailed ==
  /\ [](phase \in TwoProviderPhases => SecondaryAfterPrimary)
  /\ [][FallbackStep]_vars

C15_Witness ==
  /\ phase = "phase3"
  /\ provider_calls = << "claude", "claude", "gemini" >>
  /\ pc = "returned"
  /\ phase_result.value = JsonValue
  /\ phase_result.usage = "gemini-3-flash-preview"

----------------------------------------------------------------------------
(* C16 *)

ClaudePrimaryBothKeys ==
  /\ phase \in {"phase3", "phase4"}
  /\ primary_model = "claude"
  /\ anthropic_api_key /\ gemini_api_key

IsPrefix(s, t) == Len(s) <= Len(t) /\ \A i \in DOMAIN s : s[i] = t[i]

AttemptAfterFailedAttempt ==
  (ClaudePrimaryBothKeys /\ provider_calls' # provider_calls /\ provider_calls # << >>) =>
    /\ provider_calls' = Append(provider_calls, provider')
    /\ http_requests' = http_requests + 1
    /\ last_response' # "200"
    /\ pc' = "calling"

(* C16: in Phases 3 and 4 with primary_model = 'claude' and both keys, the *)
(* provider attempts are a prefix of Claude, Claude, Gemini, and an        *)
(* attempt after the first is made only when the one before it failed.     *)
C16_ClaudeClaudeGemini ==
  /\ [](ClaudePrimaryBothKeys => IsPrefix(provider_calls, << "claude", "claude", "gemini" >>))
  /\ [][AttemptAfterFailedAttempt]_vars

C16_Witness ==
  /\ ClaudePrimaryBothKeys
  /\ phase = "phase4"
  /\ provider_calls = << "claude", "claude", "gemini" >>
  /\ pc = "returned"
  /\ phase_result.value = ParagraphsValue(GenerationFailedParagraphs)

----------------------------------------------------------------------------
(* C17 *)

AllAttemptsFailed ==
  /\ pc \in {"returned", "raised"}
  /\ provider_calls # << >>
  /\ last_response # "200"

(* C17: when every provider attempt of a phase failed, Phases 1 and 2      *)
(* return None, Phase 3 returns (None, None), and Phase 4 returns a        *)
(* complete placeholder triple (three keys, source_articles = []) with     *)
(* usage None.                                                             *)
C17_AllFailedReturns ==
  (AllAttemptsFailed /\ phase \in TwoProviderPhases) =>
    /\ phase_result.kind = "returned"
    /\ phase \in {"phase1", "phase2"} =>
         ~phase_result.tuple /\ phase_result.value = NoneValue
    /\ phase = "phase3" =>
         phase_result.tuple /\ phase_result.value = NoneValue /\ phase_result.usage = None
    /\ phase = "phase4" =>
         /\ phase_result.tuple
         /\ phase_result.usage = None
         /\ phase_result.value.kind = "paragraphs"
         /\ DOMAIN phase_result.value.paragraphs = Phase4Keys
         /\ \A k \in Phase4Keys : phase_result.value.paragraphs[k].source_articles = << >>

----------------------------------------------------------------------------
(* C18 *)

SomeSectionIsNonEmptyList ==
  \E s \in SectionSet :
    phase1_json[s].kind = "list" /\ phase1_json[s].items # << >>

----------------------------------------------------------------------------
(* C19 *)

HasCompleteHints(b) ==
  /\ b.filing_hints.kind = "dict"
  /\ \A ft \in FilingTypes : IsListValue(b.filing_hints.entries[ft])

BulletsOf(json, s) ==
  IF json.sections[s].kind = "list" THEN Range(json.sections[s].items) ELSE {}

AcceptedAsValid == pc = "validated" /\ validation.is_valid

(* C19 as stated: after validate_phase1_json returns valid, every bullet   *)
(* of every one of the seven sections has a filing_hints mapping with the  *)
(* keys 10-K, 10-Q and Transcript, each mapped to a list.                  *)
C19_Original ==
  AcceptedAsValid =>
    \A s \in SectionSet : \A b \in BulletsOf(phase1_json, s) : HasCompleteHints(b)

StripHints(json) ==
  [ json EXCEPT !.sections =
      [ s \in SectionSet |->
          IF json.sections[s].kind # "list" THEN json.sections[s]
          ELSE ListValue([ k \in DOMAIN json.sections[s].items |->
                 IF json.sections[s].items[k].kind # "dict" THEN json.sections[s].items[k]
                 ELSE [ json.sections[s].items[k] EXCEPT !.filing_hints = HintsAbsent ] ]) ] ]

(* C19 amended: after validate_phase1_json returns valid, every bullet of  *)
(* the six sections other than key_variables has a filing_hints mapping    *)
(* with the keys 10-K, 10-Q and Transcript, each mapped to a list; and the *)
(* verdict and its message are those of the same JSON without any          *)
(* filing_hints: filing_hints is never a reason for rejection.             *)
C19_HintsRepaired ==
  /\ AcceptedAsValid =>
       \A s \in Range(bullet_sections) : \A b \in BulletsOf(phase1_json, s) :
         HasCompleteHints(b)
  /\ pc = "validated" => validation = validate_phase1_json(StripHints(phase1_json))

C19_Witness ==
  /\ AcceptedAsValid
  /\ \E b \in BulletsOf(phase1_json, "major_developments") :
       b.filing_hints = HintsDict(Item7List, EmptyList, EmptyList)
  /\ \E b \in BulletsOf(phase1_json, "risk_factors") :
       b.filing_hints = HintsDict(EmptyList, EmptyList, EmptyList)
  /\ \E b \in BulletsOf(phase1_json, "key_variables") : b.filing_hints = HintsOther

----------------------------------------------------------------------------
(* C20 *)

IsNonNegativeInteger(el) == el.kind = "int" /\ el.val >= 0

BadElements(b) ==
  IF b.kind = "dict" /\ b.source_articles.kind = "list"
  THEN { idx \in DOMAIN b.source_articles.items :
           ~IsNonNegativeInteger(b.source_articles.items[idx]) }
  ELSE {}

IsBulletObject(b) ==
  /\ b.kind = "dict"
  /\ b.bullet_id # Absent /\ b.topic_label # Absent /\ b.content # Absent
  /\ b.source_articles.kind \in {"absent", "list"}

SectionsAreBulletArrays(json) ==
  /\ json.has_sections
  /\ \A s \in SectionSet :
       /\ json.sections[s].kind = "list"
       /\ \A b \in Range(json.sections[s].items) : IsBulletObject(b)

WellFormed(json) ==
  /\ SectionsAreBulletArrays(json)
  /\ \A s \in SectionSet : \A b \in Range(json.sections[s].items) : BadElements(b) = {}

BulletsWithBadElement(json, s) ==
  { k \in DOMAIN json.sections[s].items : BadElements(json.sections[s].items[k]) # {} }

SectionsWithBadElement(json) ==
  { k \in DOMAIN required_sections : BulletsWithBadElement(json, required_sections[k]) # {} }

(* The message for the first bad element, in the order of the sections, of *)
(* the bullets and of the elements                                         *)
FirstBadElementError(json) ==
  LET s == required_sections[SetMin(SectionsWithBadElement(json))]
      k == SetMin(BulletsWithBadElement(json, s))
  IN ValidationError("source_articles must be non-negative integer", s, k - 1, "",
                     SetMin(BadElements(json.sections[s].items[k])) - 1)

(* C20: validate_phase1_json returns valid iff the sections key exists,    *)
(* the seven section keys are present, each section is an array, each      *)
(* bullet an object with bullet_id, topic_label and content, and every     *)
(* source_articles that is present an array of non-negative integers; and  *)
(* a JSON whose only defect is a bad source_articles element is rejected   *)
(* with the message that names the section, the bullet index and the index *)
(* of the first offending element.                                         *)
C20_ValidIffWellFormed ==
  pc = "validated" =>
    /\ validation.is_valid <=> WellFormed(phase1_json)
    /\ (SectionsAreBulletArrays(phase1_json) /\ ~WellFormed(phase1_json)) =>
         validation.error = FirstBadElementError(phase1_json)

----------------------------------------------------------------------------
(* C21 *)

SameButDeduplication(b, c) ==
  /\ b.bullet_id = c.bullet_id
  /\ b.topic_label = c.topic_label
  /\ b.content = c.content
  /\ b.context = c.context
  /\ b.source_articles = c.source_articles
  /\ b.filter_status = c.filter_status
  /\ b.filter_reason = c.filter_reason
  /\ b.impact = c.impact
  /\ b.sentiment = c.sentiment
  /\ b.reason = c.reason
  /\ b.relevance = c.relevance
  /\ b.entity = c.entity

(* C21: merge_phase3_with_phase2 takes only the deduplication field from   *)
(* Phase 3: every section keeps its bullets in their order, and content,   *)
(* context, topic_label, source_articles and the Phase 1.5 and Phase 2     *)
(* fields of each bullet are those of the Phase 2 JSON, whatever content   *)
(* or context Phase 3 returned, and whether it returned the bullet, left   *)
(* it out or put it in another section.                                    *)
C21_OnlyDeduplicationMerged ==
  pc = "tagged" =>
    \A s \in SectionSet :
      /\ Len(merged[s]) = Len(phase2_json[s])
      /\ \A i \in DOMAIN merged[s] : SameButDeduplication(merged[s][i], phase2_json[s][i])

(* Phase 3 rewrote one bullet and put another into a section that is not   *)
(* its own                                                                 *)
C21_Witness ==
  /\ pc = "tagged"
  /\ \E s \in DedupSectionSet : \E j \in DOMAIN phase3_json[s] :
       /\ phase3_json[s][j].content = "rewritten"
       /\ \E i \in DOMAIN merged[s] :
            /\ merged[s][i].bullet_id = phase3_json[s][j].bullet_id
            /\ merged[s][i].content # "rewritten"
            /\ merged[s][i].context # phase3_json[s][j].context
            /\ merged[s][i].deduplication = phase3_json[s][j].deduplication
  /\ \E s \in DedupSectionSet : \E j \in DOMAIN phase3_json[s] :
       ~\E i \in DOMAIN merged[s] : merged[s][i].bullet_id = phase3_json[s][j].bullet_id

----------------------------------------------------------------------------
(* C22 *)

ProviderOfModel(m) ==
  CASE m = "claude-sonnet-4-5-20250929" -> "claude"
    [] m \in {"gemini-3-flash-preview", "gemini-2.5-pro"} -> "gemini"
    [] OTHER -> "none"

ReturnedProviderResult == pc = "returned" /\ phase_result.value = JsonValue

(* C22: a result that a provider produced is returned with the model of    *)
(* the provider whose attempt succeeded, the last one invoked: the         *)
(* primary's on primary success, the secondary's after fallback, also      *)
(* when Phase 3 rewrites Gemini's usage in Claude's format.                *)
C22_UsageNamesProvider ==
  ReturnedProviderResult =>
    /\ last_response = "200"
    /\ provider = provider_calls[Len(provider_calls)]
    /\ ProviderOfModel(phase_result.usage) = provider

C22_Witness ==
  /\ ReturnedProviderResult
  /\ phase = "phase3"
  /\ primary_model = "gemini"
  /\ provider_calls = << "gemini" >>
  /\ anthropic_api_key
  /\ phase_result.usage = "gemini-3-flash-preview"

----------------------------------------------------------------------------
(* C23 *)

(* The articles of the five categories that have a non-empty ai_summary *)
EligibleIds ==
  UNION { { categories[CategoryNames[k]][i].id :
              i \in { j \in DOMAIN categories[CategoryNames[k]] :
                        categories[CategoryNames[k]][j].ai_summary \notin {Absent, None, ""} } } :
          k \in DOMAIN CategoryNames }

(* The place of an article in the order of collection: category, then list index *)
CollectionRank(id) ==
  CHOOSE r \in 0..(10 * Len(CategoryNames) + MaxArticles + 1) :
    \E k \in DOMAIN CategoryNames :
      \E i \in DOMAIN categories[CategoryNames[k]] :
        /\ categories[CategoryNames[k]][i].id = id
        /\ r = 10 * k + i

HasTimestamp(entry) == entry.published_at.kind = "datetime"

(* entry a comes before entry b in "newest first, no timestamp last, ties  *)
(* in collection order"                                                    *)
ComesBefore(a, b) ==
  \/ HasTimestamp(a) /\ ~HasTimestamp(b)
  \/ HasTimestamp(a) /\ HasTimestamp(b) /\ a.published_at.day > b.published_at.day
  \/ /\ HasTimestamp(a) = HasTimestamp(b)
     /\ HasTimestamp(a) => a.published_at.day = b.published_at.day
     /\ CollectionRank(a.id) < CollectionRank(b.id)

----------------------------------------------------------------------------
(* C24 *)

(* C24: the knowledge base built for Phase 1.5 never holds a 10-K or a 10-Q, *)
(* even when the fetched filings have them; never a transcript or an 8-K     *)
(* filed fewer than 7 days before today; its identifiers are distinct:       *)
(* TRANSCRIPT_1, and 8K_1..8K_m in the order of the list of 8-K filings.     *)
C24_KnowledgeBaseSources ==
  pc = "content_built" =>
    LET eight_k == SelectSeq(filing_lookup, LAMBDA e : e.type = "8-K")
    IN /\ \A i \in DOMAIN filing_lookup :
            /\ filing_lookup[i].type \in {"Transcript", "8-K"}
            /\ filing_lookup[i].dated => filing_lookup[i].days_ago >= 7
       /\ \A i, j \in DOMAIN filing_lookup :
            i # j => filing_lookup[i].filing_id # filing_lookup[j].filing_id
       /\ \A i \in DOMAIN filing_lookup :
            filing_lookup[i].type = "Transcript" =>
              filing_lookup[i].filing_id = [ prefix |-> "TRANSCRIPT", n |-> 1 ]
       /\ Len(eight_k) = Len(eight_k_filings)
       /\ \A i \in DOMAIN eight_k :
            /\ eight_k[i].filing_id = [ prefix |-> "8K", n |-> i ]
            /\ eight_k[i].summary_markdown = eight_k_filings[i].summary_markdown

(* A knowledge base with a transcript and an 8-K, built when a 10-K and a   *)
(* 10-Q were fetched and an 8-K of two days ago is on file                  *)
C24_Witness ==
  /\ pc = "content_built"
  /\ filings.has_10k /\ filings.has_10q
  /\ \E i \in DOMAIN company_releases :
       /\ company_releases[i].days_ago = 2
       /\ Layer1(company_releases[i]) /\ Layer2(company_releases[i]) /\ Layer3(company_releases[i])
  /\ Len(filing_lookup) = 2
  /\ filing_lookup[1].type = "Transcript"
  /\ filing_lookup[2].type = "8-K"

(* A fetched transcript of three days ago is left out of the knowledge base *)
C24_WitnessRecentTranscript ==
  /\ pc = "content_built"
  /\ filings.transcript = TranscriptDated(3)
  /\ filing_lookup = << >>
  /\ Len(company_releases) = MaxReleases

----------------------------------------------------------------------------
(* C25 *)

IsParsedIndex(idx) == idx.kind = "int" /\ idx.val >= 0

(* C25: after _parse_phase4_json_response succeeds the three paragraph keys *)
(* exist and source_articles of each is a list of non-negative integers:    *)
(* invalid elements are gone and integral floats are integers.  The word    *)
(* counts reject nothing.                                                   *)
C25_ParsedSourcesAreIntegers ==
  (pc = "parsed" /\ phase4_json.kind = "dict") =>
    \A k \in DOMAIN required_phase4_fields :
      LET f == required_phase4_fields[k]
      IN /\ f \in DOMAIN phase4_json.json
         /\ phase4_json.json[f].source_articles.kind = "list"
         /\ \A i \in DOMAIN phase4_json.json[f].source_articles.items :
              IsParsedIndex(phase4_json.json[f].source_articles.items[i])

(* The parts of C25 that hold: the three keys exist with a date_range and a *)
(* text content, whatever the word counts, and a source_articles list keeps *)
(* no negative number, no fractional number and no string                   *)
C25_KeysExistAndNothingRejected ==
  (pc = "parsed" /\ parsed.kind = "dict") =>
    /\ phase4_json.kind = "dict"
    /\ \A k \in DOMAIN required_phase4_fields :
         LET f == required_phase4_fields[k]
         IN /\ f \in DOMAIN phase4_json.json
            /\ phase4_json.json[f].content.kind = "str"
            /\ phase4_json.json[f].date_range # Absent
            /\ phase4_json.json[f].source_articles.kind = "list" =>
                 \A i \in DOMAIN phase4_json.json[f].source_articles.items :
                   LET idx == phase4_json.json[f].source_articles.items[i]
                   IN idx.kind \in {"int", "bool", "float"} /\ idx.val >= 0 /\ idx.integral

----------------------------------------------------------------------------
(* C26 *)

(* A request of a Claude provider function has come back *)
ClaudeRequestStep ==
  /\ pc = "calling"
  /\ provider = "claude"
  /\ http_requests' = http_requests + 1

(* The same call of the provider function goes on to another request *)
FurtherRequest ==
  /\ pc' = "calling"
  /\ provider_calls' = provider_calls
  /\ http_attempt' = http_attempt + 1

TransientOutcomes(ph) ==
  (IF ph \in {"phase3", "phase4"} THEN {"429", "500", "503", "529"} ELSE {"429", "500", "503"})
    \cup {"timeout", "network_error"}

C26_Step ==
  ClaudeRequestStep =>
    /\ http_attempt < 3
    /\ FurtherRequest =>
         /\ last_response' \in TransientOutcomes(phase)
         /\ Len(slept') = Len(slept) + 1
         /\ slept'[Len(slept')].jitter = FALSE
         /\ slept'[Len(slept')].ms = IF http_attempt = 0 THEN 1000 ELSE 2000
    /\ ~FurtherRequest => slept' = slept
    /\ last_response' \in {"400", "400_quota"} =>
         /\ ~FurtherRequest
         /\ \/ /\ pc' = "calling"
               /\ Len(provider_calls') = Len(provider_calls) + 1
            \/ /\ pc' = "returned"
               /\ phase_result' = FailureReturn(phase)
               /\ NextProvider(phase, primary_model, provider, attempt,
                               anthropic_api_key, gemini_api_key) = "none"

C26_AtMostThreeRequests ==
  (pc \in {"calling", "returned", "raised"} /\ provider_calls # << >>
     /\ \A i \in DOMAIN provider_calls : provider_calls[i] = "claude")
    => http_requests <= 3 * Len(provider_calls)

----------------------------------------------------------------------------
(* C27 *)

(* A call of generate_content inside call_with_retry has ended *)
GeminiRequestStep ==
  /\ pc = "calling"
  /\ provider = "gemini"
  /\ phase # "phase4"
  /\ http_requests' = http_requests + 1

C27_Step ==
  GeminiRequestStep =>
    /\ (last_response' \in {"timeout", "network_error", "429", "500", "503"}
          /\ http_attempt < max_retries)
         => /\ FurtherRequest
            /\ Len(slept') = Len(slept) + 1
            /\ last_response' \in {"timeout", "network_error"} =>
                 slept'[Len(slept')].ms = GeminiWait("503", http_attempt).ms
    /\ last_response' \in {"400", "400_quota"} => ~FurtherRequest
    /\ (last_response' \notin {"200", "200_truncated", "200_unparseable", "200_empty"}
          /\ http_attempt = max_retries)
         => ~FurtherRequest

(* C27: call_with_retry retries a timeout or a connection error with the    *)
(* backoff of a 503, and a 429, 500 or 503, while fewer than max_retries    *)
(* retries were made; it never retries a 400 or 403; it returns None once   *)
(* max_retries + 1 calls have failed.                                       *)
C27_GeminiRetries == [][C27_Step]_vars

C27_StepAsCoded ==
  GeminiRequestStep =>
    /\ (last_response' \in {"429", "500", "503", "529", "400_quota"}
          /\ http_attempt < max_retries)
         => /\ FurtherRequest
            /\ slept'[Len(slept')].jitter
            /\ slept'[Len(slept')].ms =
                 IF last_response' \in {"429", "400_quota"}
                 THEN (IF http_attempt = 0 THEN 1000 ELSE 2000)
                 ELSE (IF http_attempt = 0 THEN 1000 ELSE 1500)
    /\ last_response' \in {"400", "timeout", "network_error"} =>
         ~FurtherRequest /\ slept' = slept
    /\ (last_response' \notin {"200", "200_truncated", "200_unparseable", "200_empty"}
          /\ http_attempt = max_retries)
         => ~FurtherRequest /\ slept' = slept

(* What call_with_retry does: rate limits and server errors are retried     *)
(* with their backoffs; a timeout, a connection error and a 400 whose       *)
(* message names no rate or quota end the call at once; after               *)
(* max_retries + 1 failed calls it returns None.                            *)
C27_GeminiRetriesAsCoded == [][C27_StepAsCoded]_vars

----------------------------------------------------------------------------
(* C28 *)

(* A response of Phase 1.5 that has text and does not parse as JSON *)
UnparseableResponseStep ==
  /\ pc = "calling"
  /\ phase = "phase1_5"
  /\ http_requests' = http_requests + 1
  /\ last_response' \in {"200_truncated", "200_unparseable"}

(* The provider function calls call_with_retry once more *)
SameProviderAgain ==
  /\ pc' = "calling"
  /\ provider_calls' = provider_calls
  /\ content_attempt' = content_attempt + 1
  /\ http_attempt' = 0

SecondaryProviderTried ==
  /\ pc' = "calling"
  /\ Len(provider_calls') = Len(provider_calls) + 1
  /\ provider_calls'[Len(provider_calls')] # provider

C28_OriginalStep ==
  UnparseableResponseStep =>
    /\ SameProviderAgain => last_response' = "200_truncated" /\ content_attempt = 0
    /\ last_response' = "200_unparseable" => ~SameProviderAgain /\ SecondaryProviderTried

(* C28 as stated: in Phase 1.5 an unparseable response makes the same       *)
(* provider be called again, once, only when it looks truncated; when it    *)
(* does not look truncated the secondary provider is tried instead.         *)
C28_Original == [][C28_OriginalStep]_vars

C28_RetryStep ==
  UnparseableResponseStep =>
    /\ provider = "gemini"
    /\ content_attempt = 0 =>
         /\ SameProviderAgain
         /\ slept' = Append(slept, [ call |-> 1, request |-> http_attempt, ms |-> 2000,
                                     jitter |-> FALSE ])
    /\ content_attempt > 0 =>
         /\ content_attempt = 1
         /\ pc' = "returned"
         /\ phase_result' = FailureReturn(phase)
    /\ ~SecondaryProviderTried

(* C28, amended: in Phase 1.5 a first response that does not parse as JSON *)
(* makes Gemini be asked again, once, after 2 seconds, whether or not it    *)
(* looks truncated; a second one makes the filter return None.  No other    *)
(* provider is tried.                                                       *)
C28_RetryWhateverTheFailure == [][C28_RetryStep]_vars

(* Phase 1.5 only ever calls Gemini *)
C28_GeminiOnly ==
  phase = "phase1_5" => provider_calls \in { << >>, << "gemini" >> }

(* Gemini is asked again after a response that did not look truncated *)
C28_Witness ==
  /\ phase = "phase1_5"
  /\ pc = "calling"
  /\ anthropic_api_key = TRUE
  /\ content_attempt = 1
  /\ last_response = "200_unparseable"

----------------------------------------------------------------------------
(* C29 *)

(* The days named by the date_range of the surviving bullets *)
SurvivorDays ==
  UNION { dated_bullets[i].days :
            i \in { j \in DOMAIN dated_bullets :
                      /\ dated_bullets[j].filter_status # "filtered_out"
                      /\ dated_bullets[j].deduplication # "duplicate" } }

SurvivorMonthDays == { MonthDay(n) : n \in SurvivorDays }

(* The first and the last day a range string names *)
FirstOf(range) == range.from
LastOf(range) ==
  IF range.kind = "day_range" THEN [ month |-> range.from.month, day |-> range.to.day ]
  ELSE range.to

(* daily: today; weekly: the seven days that end yesterday *)
PeriodString ==
  IF report_type = "daily" THEN SingleDate(MonthDay(now_eastern))
  ELSE IF MonthOf(now_eastern - 7) = MonthOf(now_eastern - 1)
  THEN DayRange(MonthDay(now_eastern - 7), DayOfMonth(now_eastern - 1))
  ELSE FullRange(MonthDay(now_eastern - 7), MonthDay(now_eastern - 1))

(* C29: after post_process_phase4_dates the three paragraphs carry one and  *)
(* the same non-empty date_range, whatever the model had written: a range   *)
(* whose ends are dates of surviving bullets when one of them parses, the   *)
(* string of the report period otherwise.                                   *)
C29_OneDateRange ==
  pc = "post_processed" =>
    /\ DOMAIN phase4_result = ParagraphKeys
    /\ \A k, l \in ParagraphKeys :
         /\ phase4_result[k].kind = "dict"
         /\ phase4_result[k].date_range = phase4_result[l].date_range
         /\ phase4_result[k].date_range.kind \in {"single", "day_range", "full_range"}
    /\ \A k \in ParagraphKeys :
         IF SurvivorDays # { }
         THEN /\ FirstOf(phase4_result[k].date_range) \in SurvivorMonthDays
              /\ LastOf(phase4_result[k].date_range) \in SurvivorMonthDays
         ELSE phase4_result[k].date_range = PeriodString

(* The bullets name two days, another day is named by a filtered bullet,    *)
(* and the paragraphs carry the range of the two days                       *)
C29_Witness ==
  /\ pc = "post_processed"
  /\ Cardinality(SurvivorDays) = 2
  /\ \E i \in DOMAIN dated_bullets : dated_bullets[i].filter_status = "filtered_out"
  /\ phase4_result["phase4_bottom_line"].date_range.kind \in {"day_range", "full_range"}

(* No bullet has a date, the report is weekly, and the paragraphs carry the *)
(* period                                                                   *)
C29_WitnessPeriod ==
  /\ pc = "post_processed"
  /\ report_type = "weekly"
  /\ dated_bullets # << >>
  /\ SurvivorDays = { }
  /\ phase4_result["phase4_upside_scenario"].date_range = PeriodString

----------------------------------------------------------------------------
(* C30 *)

(* C30: _consolidate_dates gives the range from the earliest to the latest  *)
(* of the days the surviving bullets name, also when they lie on both sides *)
(* of a new year.                                                           *)
C30_EarliestToLatest ==
  (pc = "consolidated" /\ SurvivorDays # { }) =>
    consolidated = FormatRange(SetMin(SurvivorDays), SetMax(SurvivorDays))

(* The same for bullets whose days all lie in the current year *)
C30_EarliestToLatestWithinYear ==
  (pc = "consolidated" /\ SurvivorDays # { }
     /\ \A n \in SurvivorDays : YearOf(n) = YearOf(now_eastern)) =>
    consolidated = FormatRange(SetMin(SurvivorDays), SetMax(SurvivorDays))

----------------------------------------------------------------------------
(* C31 *)

(* What the call returned is what the function computes on the values *)
FramesAgreeWithValues ==
  /\ pc = "filtered" =>
       \E v \in Verdicts :
         LoadJson(heap, result_root)
           = ApplyFilterToPhase1(LoadJson(heap_before, argument_roots[1]), v)
  /\ pc = "enriched" =>
       \E e \in PlainEnrichments :
         LoadJson(heap, result_root)
           = MergePhase1Phase2(LoadJson(heap_before, argument_roots[1]), e)
  /\ pc = "tagged" =>
       LoadJson(heap, result_root)
         = MergePhase3WithPhase2(LoadJson(heap_before, argument_roots[1]),
                                 LoadJson(heap_before, argument_roots[2]))
  /\ pc = "deduplicated" =>
       LoadJson(heap, result_root)
         = ApplyDeduplication(LoadJson(heap_before, argument_roots[1]))

(* Every object of every argument is after the call as it was before *)
ArgumentsUnchanged ==
  \A k \in DOMAIN argument_roots :
    \A a \in Reach(heap_before, argument_roots[k]) : heap[a] = heap_before[a]

(* The objects the result has in common with the k-th argument *)
SharedWithArgument(k) ==
  IF result_root = 0 \/ k \notin DOMAIN argument_roots THEN {}
  ELSE Reach(heap, result_root) \cap Reach(heap_before, argument_roots[k])

(* C31 as stated: after a call of apply_filter_to_phase1,                  *)
(* merge_phase1_phase2, merge_phase3_with_phase2 or apply_deduplication    *)
(* every argument is unchanged and the result has no object in common      *)
(* with any argument.                                                      *)
C31_Original ==
  /\ ArgumentsUnchanged
  /\ \A k \in DOMAIN argument_roots : SharedWithArgument(k) = {}

(* C31: after a call of any of the four functions every argument is        *)
(* unchanged and the result has no object in common with the argument      *)
(* that was deep-copied; what the result of merge_phase3_with_phase2 has   *)
(* in common with phase3_json are deduplication dicts only.                *)
C31_ArgumentsUnchanged ==
  /\ ArgumentsUnchanged
  /\ SharedWithArgument(1) = {}
  /\ SharedWithArgument(2) \subseteq
       IF Len(argument_roots) = 2 THEN DedupAddrs(heap_before, argument_roots[2]) ELSE {}

(* merge_phase3_with_phase2 has returned a JSON that holds a               *)
(* deduplication dict of phase3_json, after writing into its copy          *)
C31_Witness ==
  /\ pc = "tagged"
  /\ SharedWithArgument(2) # {}
  /\ LoadJson(heap, result_root) # LoadJson(heap_before, argument_roots[1])

----------------------------------------------------------------------------
(* C32 *)

(* The bullets of the JSON the last call returned, and of its argument *)
ResultBullets ==
  IF result_root = 0 THEN {}
  ELSE { LoadBullet(heap, a) : a \in BulletAddrs(heap, result_root, SectionSet) }

ArgumentBullets ==
  IF argument_roots = << >> THEN {}
  ELSE { LoadBullet(heap_before, a) :
           a \in BulletAddrs(heap_before, argument_roots[1], SectionSet) }

FilterFieldsSet(bullet) ==
  \/ bullet.filter_status = "included" /\ bullet.filter_reason = None
  \/ bullet.filter_status = "filtered_out" /\ bullet.filter_reason = "stale"

(* C32: once apply_filter_to_phase1 has run, every bullet of the seven     *)
(* sections of the JSON a call returns has filter_status 'included' with   *)
(* filter_reason None or 'filtered_out' with 'stale', and a bullet that    *)
(* merge_phase1_phase2, merge_phase3_with_phase2 or apply_deduplication    *)
(* returns has the two fields as they were in its argument.                *)
C32_FilterFieldsKept ==
  /\ pc # "phase1" => \A b \in ResultBullets : FilterFieldsSet(b)
  /\ pc \in {"enriched", "tagged", "deduplicated"} =>
       \A b \in ResultBullets :
         \E old \in ArgumentBullets :
           /\ old.bullet_id = b.bullet_id
           /\ old.filter_status = b.filter_status
           /\ old.filter_reason = b.filter_reason

(* apply_deduplication has returned a stale bullet of key_variables that   *)
(* Phase 2 gave a reason, beside an included one                           *)
C32_Witness ==
  /\ pc = "deduplicated"
  /\ \E b \in ResultBullets :
       /\ b.filter_status = "filtered_out" /\ b.filter_reason = "stale"
       /\ b.reason = "reason given"
       /\ SectionOfId(LoadJson(heap, result_root), b.bullet_id) = "key_variables"
  /\ \E b \in ResultBullets : b.filter_status = "included" /\ b.filter_reason = None

----------------------------------------------------------------------------
(* C33 *)

(* The article references of the bullets of the six sections *)
ArticleReferences(json) ==
  UNION { UNION { Range(GetInts(json[s][i].source_articles)) : i \in DOMAIN json[s] } :
            s \in DedupSectionSet }

(* Every duplicate is named in the absorbs list of some primary *)
ConsistentMetadata(json) ==
  \A s \in DedupSectionSet : \A i \in DOMAIN json[s] :
    StatusOf(json[s][i]) = "duplicate" =>
      \E t \in DedupSectionSet : \E j \in DOMAIN json[t] :
        /\ StatusOf(json[t][j]) = "primary"
        /\ json[s][i].bullet_id \in Range(AbsorbsOf(json[t][j]))

(* C33: when every bullet with status 'duplicate' is named in the absorbs  *)
(* list of a bullet with status 'primary', the union of source_articles    *)
(* over the bullets of the six sections is after apply_deduplication what  *)
(* it was before.                                                          *)
C33_NoReferenceLost ==
  pc = "deduplicated" /\ ConsistentMetadata(phase3_merged_json) =>
    ArticleReferences(merged) = ArticleReferences(phase3_merged_json)

(* A duplicate of another section is removed and the one reference only   *)
(* it had is now held by its primary                                       *)
C33_Witness ==
  /\ pc = "deduplicated"
  /\ ConsistentMetadata(phase3_merged_json)
  /\ \E s \in DedupSectionSet : \E i \in DOMAIN phase3_merged_json[s] :
       LET removed == phase3_merged_json[s][i]
       IN /\ StatusOf(removed) = "duplicate"
          /\ \E t \in DedupSectionSet \ {s} : \E j \in DOMAIN merged[t] :
               /\ StatusOf(merged[t][j]) = "primary"
               /\ removed.bullet_id \in Range(AbsorbsOf(merged[t][j]))
               /\ \E n \in Range(GetInts(removed.source_articles)) :
                    /\ n \in Range(GetInts(merged[t][j].source_articles))
                    /\ n \notin Range(GetInts(
                         BulletOfId(phase3_merged_json, merged[t][j].bullet_id).source_articles))

----------------------------------------------------------------------------
(* C34 *)

(* The date_range of the bullets _filter_surviving_bullets kept that have  *)
(* one, in the order of the first k BULLET_SECTIONS                        *)
RECURSIVE SurvivorDates(_)
SurvivorDates(k) ==
  IF k = 0 THEN << >>
  ELSE LET dated == SelectSeq(surviving[BULLET_SECTIONS[k]],
                              LAMBDA b : DateRangeOf(b) # "")
       IN SurvivorDates(k - 1) \o [ i \in DOMAIN dated |-> DateRangeOf(dated[i]) ]

(* C34: on the same Phase 3 JSON _collect_all_bullet_dates collects the    *)
(* date_range of exactly the bullets _filter_surviving_bullets keeps (a    *)
(* kept bullet without a date_range has none to collect), section by       *)
(* section in the same order, and it raises where the filter raises.       *)
C34_SameSurvivors ==
  /\ pc = "collected" => bullet_dates = SurvivorDates(Len(BULLET_SECTIONS))
  /\ pc = "survived" => ~CollectDatesRaises(phase3_merged_json)
  /\ pc = "raised" => CollectDatesRaises(phase3_merged_json)

(* b1 is collected, b2 is a duplicate in capital letters and skipped by    *)
(* both, b3 survives and has no date                                       *)
C34_Witness ==
  /\ pc = "collected"
  /\ IdSeq(phase3_merged_json["major_developments"]) = <<"b1", "b2", "b3">>
  /\ phase3_merged_json["major_developments"][2].filter_status = "included"
  /\ phase3_merged_json["major_developments"][2].deduplication
       = DedupDict("Duplicate", AbsentIds, "b1")
  /\ IdSeq(surviving["major_developments"]) = <<"b1", "b3">>
  /\ bullet_dates = <<"Dec 11">>

----------------------------------------------------------------------------
(* C35 *)

(* C35: for every bullet of the six sections of a Phase 3 merged JSON,     *)
(* apply_deduplication retains it and its filter_status is not             *)
(* 'filtered_out' iff _filter_surviving_bullets keeps it.                  *)
C35_SameBulletsShown ==
  pc = "projected" =>
    \A s \in DedupSectionSet : \A i \in DOMAIN phase3_merged_json[s] :
      LET b == phase3_merged_json[s][i]
      IN (b.bullet_id \in BulletIdsOf(merged, s) /\ b.filter_status # "filtered_out")
           <=> b.bullet_id \in Range(IdSeq(surviving[s]))

(* The two agree when every status is written in lower case *)
C35_SameBulletsShownInLowerCase ==
  pc = "projected"
    /\ (\A s \in DedupSectionSet : \A i \in DOMAIN phase3_merged_json[s] :
          StatusOf(phase3_merged_json[s][i]) # "Duplicate")
    => \A s \in DedupSectionSet : \A i \in DOMAIN phase3_merged_json[s] :
         LET b == phase3_merged_json[s][i]
         IN (b.bullet_id \in BulletIdsOf(merged, s) /\ b.filter_status # "filtered_out")
              <=> b.bullet_id \in Range(IdSeq(surviving[s]))

(* The projection returns on every JSON the survivor filter accepts: it    *)
(* does not, dedup.get raises for a filtered bullet whose deduplication    *)
(* is null, which the filter skips before it looks at it                   *)
C35_ProjectionNeverRaises == pc # "projection raised"

----------------------------------------------------------------------------
(* C36 *)

(* C36 as stated: apply_deduplication of its own output is that output *)
C36_Original == pc = "deduplicated twice" => deduplicated_twice = merged

(* A primary that absorbs a bullet which itself has bullets to absorb *)
AbsorberAbsorbed(json) ==
  \E s \in DedupSectionSet : \E i \in DOMAIN json[s] :
    StatusOf(json[s][i]) = "primary" /\ AbsorbsAnAbsorber(json, json[s][i])

(* C36: apply_deduplication of its own output is that output, unless a     *)
(* primary absorbs a bullet that is itself a primary with a non-empty      *)
(* absorbs list.                                                           *)
C36_IdempotentWithoutChains ==
  pc = "deduplicated twice" /\ ~AbsorberAbsorbed(phase3_merged_json) =>
    deduplicated_twice = merged

(* The first call has removed a duplicate and consolidated its primary,    *)
(* the second finds nothing to do                                          *)
C36_Witness ==
  /\ pc = "deduplicated twice"
  /\ ~AbsorberAbsorbed(phase3_merged_json)
  /\ merged # phase3_merged_json
  /\ \E s \in DedupSectionSet :
       /\ Len(merged[s]) < Len(phase3_merged_json[s])
       /\ \E t \in DedupSectionSet : \E j \in DOMAIN merged[t] :
            /\ StatusOf(merged[t][j]) = "primary"
            /\ merged[t][j].source_articles
                 # BulletOfId(phase3_merged_json, merged[t][j].bullet_id).source_articles
  /\ deduplicated_twice = merged

----------------------------------------------------------------------------
(* C37 *)

(* The phase function always gets to run and its provider to answer *)
SpecPhasesFair == SpecPhases /\ WF_vars(NextPhases)

Terminated == pc \in {"returned", "raised"}

RequestsBounded ==
  /\ phase \in {"phase1", "phase2"} => http_requests <= 6
  /\ phase = "phase1_5" => http_requests <= 6
  /\ phase \in {"phase3", "phase4"} /\ primary_model = "claude" => http_requests <= 9

(* C37: whatever the providers answer, every phase function returns (or    *)
(* raises) and sends at most 6 requests in Phases 1, 1.5 and 2 and at most *)
(* 9 in Phases 3 and 4 with Claude as primary.                             *)
C37_TerminatesAfterBoundedRequests == []RequestsBounded /\ <>Terminated

(* Phase 4 has returned after two Claude attempts and Gemini, three        *)
(* requests each                                                           *)
C37_Witness ==
  /\ Terminated
  /\ phase = "phase4" /\ primary_model = "claude"
  /\ provider_calls = <<"claude", "claude", "gemini">>
  /\ http_requests = 9

(* The bounds of Phases 1.5 and 2 are reached as well *)
C37_WitnessContentRetry ==
  Terminated /\ phase = "phase1_5" /\ content_attempt = 1 /\ http_requests = 6

C37_WitnessFallback ==
  Terminated /\ phase = "phase2" /\ provider_calls = <<"gemini", "claude">>
    /\ http_requests = 6

----------------------------------------------------------------------------
(* C38 *)

NothingToEnrich ==
  /\ phase = "phase2"
  /\ \A s \in Range(ENRICHABLE_SECTIONS) : Len(phase1_json[s]) = 0

(* C38: when the five counted sections hold no bullet, whatever            *)
(* wall_street_sentiment and key_variables hold, Phase 2 invokes no        *)
(* provider, sends no request and returns the skipped result with its      *)
(* empty enrichments; otherwise, with an API key present, it returns only  *)
(* after it has invoked a provider.                                        *)
C38_SkipsWithoutBullets ==
  /\ NothingToEnrich =>
       /\ provider_calls = << >>
       /\ http_requests = 0
       /\ pc \in {"start", "returned"}
       /\ pc = "returned" => phase_result = Returned("phase2", SkippedValue, "skipped")
  /\ phase = "phase2" /\ ~NothingToEnrich /\ (anthropic_api_key \/ gemini_api_key)
       /\ pc # "start"
       => /\ Len(provider_calls) >= 1
          /\ pc = "returned" => http_requests >= 1 /\ phase_result.value # SkippedValue

(* Skipped with both keys present and a bullet in wall_street_sentiment *)
C38_Witness ==
  /\ NothingToEnrich
  /\ pc = "returned"
  /\ anthropic_api_key /\ gemini_api_key
  /\ Len(phase1_json["wall_street_sentiment"]) > 0

(* Skipped with a bullet in key_variables; a provider invoked for a bullet *)
(* of major_developments with the Anthropic key only                       *)
C38_WitnessKeyVariables ==
  NothingToEnrich /\ pc = "returned" /\ Len(phase1_json["key_variables"]) > 0

C38_WitnessInvoked ==
  /\ phase = "phase2" /\ ~NothingToEnrich /\ pc = "returned"
  /\ ~gemini_api_key
  /\ provider_calls = <<"claude">>

====
